---- MODULE Spec2Model ----
(***************************************************************************)
(* The front end of the cypheri scripting language: the lexer              *)
(* (src/src/nametable.cpp, tokenize), the scoped local name table and the  *)
(* recursive-descent / Pratt parser that emits bytecode                    *)
(* (src/src/parse.cpp).                                                    *)
(*                                                                         *)
(* Token kinds are written by their TOKEN_TYPE_NAMES spelling and opcodes  *)
(* by their InstructionType spelling.  Indices are 0-based as in the code; *)
(* a TLA+ sequence s is read at s[i + 1].                                  *)
(***************************************************************************)
EXTENDS Integers, Sequences, FiniteSets, TLC

VARIABLES
    lexer,      \* the call tokenize(source, name_table): its stream, its res, where it stands
    tk_res,     \* the TokenizeResult handed to parse(): tokens, str_literals, error
    names,      \* the NameTable: names (the strings in id order) and name_to_id
    tokens,     \* Parser::tokens
    parser,     \* the mutable members of Parser (pos, error, local_names, ...)
    mod,        \* the BytecodeModule that Parser::parse builds
    pc,         \* where the call parse(tk_res, name_table) stands
    result      \* what parse() returned (or that it never returned)

vars == <<lexer, tk_res, names, tokens, parser, mod, pc, result>>

(***************************************************************************)
(* Bounds of the model.                                                    *)
(***************************************************************************)
\* Number of nested activations of the parse routines the call stack holds.
StackLimit == 40

\* Number of names a NameTable driven on its own comes to hold.
MaxNames == 3

(***************************************************************************)
(* Bytecode data model (bytecode.hpp).                                     *)
(***************************************************************************)
\* BytecodeInstruction(type, operand); the one-argument form has n = 0.
Instr(type, arg) == [type |-> type, arg |-> arg]
Instr0(type) == Instr(type, 0)

BytecodeFunction == [name |-> 0, local_count |-> 0, arg_count |-> 0,
                     instructions |-> <<>>]

BytecodeModule == [functions |-> <<>>, str_lits |-> <<>>, global_names |-> <<>>]

\* What a routine hands back: the state p it leaves (a stream, a parser) and
\* its C++ return value r.
Ret(p, r) == [p |-> p, r |-> r]

\* auto x = ...; followed by the rest K of the routine, which uses x.
Bind(x, K(_)) == K(x)

(***************************************************************************)
(* std::optional<SyntaxError>.                                             *)
(***************************************************************************)
nullopt == [has_value |-> FALSE]
SyntaxError(message, location) ==
    [has_value |-> TRUE, message |-> message, location |-> location]

(***************************************************************************)
(* NameTable::get_name, on a table and on the table of the run.            *)
(***************************************************************************)
NameTable_get_name(nt, id) == nt.names[id + 1]
get_name(id) == NameTable_get_name(names, id)

(***************************************************************************)
(* uint64_t.  A value is written as its decimal digits, most significant   *)
(* first and without leading zeros, so that the arithmetic of the integer  *)
(* branch of tokenize keeps its 64-bit width.                              *)
(***************************************************************************)
\* std::numeric_limits<uint64_t>::max() = 2^64 - 1
UINT64_MAX == <<1, 8, 4, 4, 6, 7, 4, 4, 0, 7, 3, 7, 0, 9, 5, 5, 1, 6, 1, 5>>

\* 2^64, the modulus of uint64_t arithmetic.
UINT64_MODULUS == <<1, 8, 4, 4, 6, 7, 4, 4, 0, 7, 3, 7, 0, 9, 5, 5, 1, 6, 1, 6>>

\* The uint64_t of a small natural number.
RECURSIVE uint64_t(_)
uint64_t(n) == IF n < 10 THEN <<n>> ELSE Append(uint64_t(n \div 10), n % 10)

\* a < b
u64_less(a, b) ==
    \/ Len(a) < Len(b)
    \/ /\ Len(a) = Len(b)
       /\ \E i \in 1..Len(a) : a[i] < b[i] /\ \A j \in 1..(i - 1) : a[j] = b[j]

\* a / 10
u64_div10(a) == IF Len(a) = 1 THEN <<0>> ELSE SubSeq(a, 1, Len(a) - 1)

\* The digits of a without leading zeros.
RECURSIVE u64_strip(_)
u64_strip(a) == IF Len(a) > 1 /\ a[1] = 0 THEN u64_strip(Tail(a)) ELSE a

\* The digit of b under the i-th digit of a when both are right-aligned.
u64_digit_under(a, b, i) ==
    IF i <= Len(a) - Len(b) THEN 0 ELSE b[i - (Len(a) - Len(b))]

\* The borrow out of the digits right of position i in a - b.
RECURSIVE u64_borrow(_, _, _)
u64_borrow(a, b, i) ==
    IF i = Len(a)
    THEN 0
    ELSE IF a[i + 1] - u64_digit_under(a, b, i + 1) - u64_borrow(a, b, i + 1) < 0
    THEN 1
    ELSE 0

\* a - b for a >= b
u64_sub(a, b) ==
    u64_strip([i \in 1..Len(a) |->
        (a[i] - u64_digit_under(a, b, i) - u64_borrow(a, b, i) + 10) % 10])

\* The value v of an unsigned expression as uint64_t holds it: v mod 2^64.
RECURSIVE u64_wrap(_)
u64_wrap(v) ==
    IF u64_less(UINT64_MAX, v) THEN u64_wrap(u64_sub(v, UINT64_MODULUS)) ELSE v

\* val * 10 + d in uint64_t
u64_mul10_add(val, d) ==
    u64_wrap(IF val = <<0>> THEN <<d>> ELSE Append(val, d))

(***************************************************************************)
(* Characters are strings of length one.  <cctype> over the characters the *)
(* sources are written in.                                                 *)
(***************************************************************************)
DigitChars == <<"0", "1", "2", "3", "4", "5", "6", "7", "8", "9">>

isdigit(c) == \E i \in 1..Len(DigitChars) : DigitChars[i] = c

\* c - '0' for a digit c
digit_value(c) == (CHOOSE i \in 1..Len(DigitChars) : DigitChars[i] = c) - 1

isalpha(c) ==
    c \in {"a", "b", "c", "d", "e", "f", "g", "h", "i", "j", "k", "l", "m",
           "n", "o", "p", "q", "r", "s", "t", "u", "v", "w", "x", "y", "z",
           "A", "B", "C", "D", "E", "F", "G", "H", "I", "J", "K", "L", "M",
           "N", "O", "P", "Q", "R", "S", "T", "U", "V", "W", "X", "Y", "Z"}

isalnum(c) == isalpha(c) \/ isdigit(c)

isspace(c) == c \in {" ", "\t", "\n", "\r", "\f"}

(***************************************************************************)
(* SourceLocation, Token, TokenizeResult (token.hpp).                      *)
(***************************************************************************)
SourceLocation(line, column) == [line |-> line, column |-> column]

\* Token(type, loc) and Token::from_identifier / from_integer / from_string.
Token(type, loc) == [type |-> type, loc |-> loc, val |-> 0]
Token_from_identifier(loc, id) == [type |-> "(identifier)", loc |-> loc, val |-> id]
Token_from_integer(loc, value) == [type |-> "(integer)", loc |-> loc, val |-> value]
Token_from_string(loc, idx) == [type |-> "(string)", loc |-> loc, val |-> idx]

\* A default-constructed TokenizeResult.
EmptyTokenizeResult == [tokens |-> <<>>, str_literals |-> <<>>, error |-> nullopt]

\* TokenizeResult::from_error: TokenizeResult{.error = SyntaxError(msg, loc)}
TokenizeResult_from_error(loc, msg) ==
    [EmptyTokenizeResult EXCEPT !.error = SyntaxError(msg, loc)]

(***************************************************************************)
(* NameTable.                                                              *)
(***************************************************************************)
\* A default-constructed NameTable: the vector names and the map name_to_id.
NameTable == [names |-> <<>>, name_to_id |-> <<>>]

\* static constexpr NameIdType INVALID_ID = -1
NameTable_INVALID_ID == -1

\* A variant of get_id that answers 0 for a name that is not in the table.
get_id_zero_when_missing(nt, name) ==
    IF name \in DOMAIN nt.name_to_id THEN nt.name_to_id[name] ELSE 0

\* NameTable::get_id: name_to_id.find(name)
get_id(nt, name) ==
    IF name \in DOMAIN nt.name_to_id
    THEN nt.name_to_id[name]
    ELSE NameTable_INVALID_ID

\* A variant of get_id_or_insert's effect without the lookup: the name is
\* always pushed.
insert_name_always(nt, name) ==
    [names |-> Append(nt.names, name),
     name_to_id |-> [n \in (DOMAIN nt.name_to_id) \cup {name} |->
                        IF n = name THEN Len(nt.names) ELSE nt.name_to_id[n]]]

\* NameTable::get_id_or_insert, the table afterwards: unchanged when find
\* succeeds, else names.push_back and name_to_id[name] = names.size() - 1.
insert_name(nt, name) ==
    IF name \in DOMAIN nt.name_to_id
    THEN nt
    ELSE [names |-> Append(nt.names, name),
          name_to_id |-> [n \in (DOMAIN nt.name_to_id) \cup {name} |->
                             IF n = name THEN Len(nt.names) ELSE nt.name_to_id[n]]]

\* NameTable::get_id_or_insert, the id it returns.
get_id_or_insert(nt, name) == get_id(insert_name(nt, name), name)

\* NameTable::size
NameTable_size(nt) == Len(nt.names)

(***************************************************************************)
(* SourceStream.  source[pos] is not bounds-checked: a read at or past     *)
(* source.size() yields whatever the memory behind the buffer holds, which *)
(* is the stream's  beyond.                                                *)
(***************************************************************************)
SourceStream(source, beyond) ==
    [source |-> source, beyond |-> beyond, pos |-> 0,
     cur_loc |-> SourceLocation(1, 1), past_end |-> FALSE]

\* source[i]
char_at(s, i) ==
    IF i < Len(s.source) THEN s.source[i + 1] ELSE s.beyond[i - Len(s.source) + 1]

SourceStream_peek(s) == char_at(s, s.pos)

\* The stream after source[pos] was read: past_end records that some read
\* was at an index >= source.size().
SourceStream_read(s) == [s EXCEPT !.past_end = @ \/ s.pos >= Len(s.source)]

\* consume, the stream afterwards; the character it returns is peek(s).
SourceStream_consume(s) ==
    [SourceStream_read(s) EXCEPT !.pos = @ + 1,
              !.cur_loc = IF SourceStream_peek(s) = "\n"
                          THEN SourceLocation(@.line + 1, 1)
                          ELSE SourceLocation(@.line, @.column + 1)]

SourceStream_match(s, expected) ==
    IF SourceStream_peek(s) = expected
    THEN Ret(SourceStream_consume(s), TRUE)
    ELSE Ret(SourceStream_read(s), FALSE)

SourceStream_eof(s) == s.pos >= Len(s.source)

RECURSIVE skip_whitespace(_)
skip_whitespace(s) ==
    IF ~SourceStream_eof(s) /\ isspace(SourceStream_peek(s))
    THEN skip_whitespace(SourceStream_consume(s))
    ELSE s

\* The while loop of consumeIdentifier; id is source.substr(begin, len).
RECURSIVE consumeIdentifier_loop(_, _)
consumeIdentifier_loop(s, id) ==
    IF /\ ~SourceStream_eof(s)
       /\ (isalnum(SourceStream_peek(s)) \/ SourceStream_peek(s) = "_")
    THEN consumeIdentifier_loop(SourceStream_read(SourceStream_consume(s)),
                                id \o SourceStream_peek(s))
    ELSE Ret(s, id)

\* consumeIdentifier: roll back over the character already consumed.
consumeIdentifier(s) ==
    consumeIdentifier_loop([s EXCEPT !.pos = @ - 1, !.cur_loc.column = @ - 1], "")

\* The character an escape sequence stands for; BS is the backspace.
BS == "(backspace)"
escape(c) ==
    CASE c = "n" -> "\n"
      [] c = "t" -> "\t"
      [] c = "r" -> "\r"
      [] c = "b" -> BS
      [] c = "f" -> "\f"
      [] OTHER -> c

\* consumeString: the opening quote is consumed; res is the characters of
\* the literal.  An unterminated string ends at the end of the source.
RECURSIVE consumeString_loop(_, _, _)
consumeString_loop(s, res, escaped) ==
    IF SourceStream_eof(s)
    THEN Ret(s, res)
    ELSE IF escaped
    THEN consumeString_loop(SourceStream_consume(s),
                            Append(res, escape(SourceStream_peek(s))), FALSE)
    ELSE IF SourceStream_peek(s) = "\""
    THEN Ret(SourceStream_consume(s), res)
    ELSE IF SourceStream_peek(s) = "\\"
    THEN consumeString_loop(SourceStream_consume(s), res, TRUE)
    ELSE consumeString_loop(SourceStream_consume(s),
                            Append(res, SourceStream_peek(s)), FALSE)

consumeString(s) == consumeString_loop(s, <<>>, FALSE)

(***************************************************************************)
(* match_keyword.                                                          *)
(***************************************************************************)
Keywords ==
    {"Break", "Class", "Continue", "Catch", "Declare", "Do", "End", "Else",
     "ElseIf", "Function", "For", "FALSE", "If", "Import", "Lambda", "Module",
     "New", "NULL", "Return", "While", "Then", "Throw", "Try", "Typeof",
     "TRUE", "_Yield"}

\* A variant of match_keyword without the cases of TRUE, FALSE and NULL.
match_keyword_without_constants(str) ==
    IF str \in Keywords \ {"TRUE", "FALSE", "NULL"} THEN str ELSE "(identifier)"

match_keyword(str) == IF str \in Keywords THEN str ELSE "(identifier)"

(***************************************************************************)
(* tokenize: the cases of its switch.  s is the stream after consume() of  *)
(* the first character c; r is the type of the token.                      *)
(***************************************************************************)
\* + - % ^ = ! : c= or c
operator_assign(s, c) ==
    IF SourceStream_match(s, "=").r
    THEN Ret(SourceStream_match(s, "=").p, c \o "=")
    ELSE Ret(s, c)

\* * / < > : c=, cc=, cc or c
operator_double_assign(s, c) ==
    IF SourceStream_match(s, "=").r
    THEN Ret(SourceStream_match(s, "=").p, c \o "=")
    ELSE IF SourceStream_match(s, c).r
    THEN operator_assign(SourceStream_match(s, c).p, c \o c)
    ELSE Ret(s, c)

\* & | : cc, c= or c
operator_logical(s, c) ==
    IF SourceStream_match(s, c).r
    THEN Ret(SourceStream_match(s, c).p, c \o c)
    ELSE operator_assign(s, c)

operator(s, c) ==
    CASE c \in {"+", "-", "%", "^", "=", "!"} -> operator_assign(s, c)
      [] c \in {"*", "/", "<", ">"} -> operator_double_assign(s, c)
      [] c \in {"&", "|"} -> operator_logical(s, c)

OperatorChars == {"+", "-", "*", "/", "%", "^", "=", "!", "<", ">", "&", "|"}
PunctuationChars == {";", "(", ")", "{", "}", ",", "[", "]"}

\* The while (std::isdigit(x)) loop of the integer branch;
\* r = [overflow, val].
RECURSIVE integer_loop(_, _, _)
integer_loop(s, val, x) ==
    IF ~isdigit(x)
    THEN Ret(s, [overflow |-> FALSE, val |-> val])
    ELSE IF u64_less(u64_div10(UINT64_MAX), val)
    THEN Ret(s, [overflow |-> TRUE, val |-> val])
    ELSE IF SourceStream_eof(SourceStream_consume(s))
    THEN Ret(SourceStream_consume(s),
             [overflow |-> FALSE, val |-> u64_mul10_add(val, digit_value(x))])
    ELSE integer_loop(SourceStream_consume(s),
                      u64_mul10_add(val, digit_value(x)),
                      SourceStream_peek(SourceStream_consume(s)))

\* uint64_t val = c - '0'; char x = stream.peek(); and the loop.
integer(s, c) ==
    integer_loop(SourceStream_read(s), uint64_t(digit_value(c)), SourceStream_peek(s))

(***************************************************************************)
(* tokenize, one action per pass of its loop.                              *)
(***************************************************************************)
\* The loop of tokenize is at its head and the source is not exhausted.
InLoop == lexer.pc = "loop" /\ ~SourceStream_eof(lexer.stream)

\* auto loc = stream.location(); char c = stream.consume();
tokenize_loc == lexer.stream.cur_loc
tokenize_c == SourceStream_peek(lexer.stream)
tokenize_s == SourceStream_consume(lexer.stream)

\* The pass pushed token and left the stream s: stream.skip_whitespace().
Pushed(s, token) ==
    /\ lexer' = [lexer EXCEPT !.stream = skip_whitespace(s),
                              !.res.tokens = Append(@, token)]
    /\ UNCHANGED <<tk_res, names>>

\* return TokenizeResult::from_error(loc, msg);
Returned(s, error) ==
    /\ lexer' = [lexer EXCEPT !.stream = s, !.pc = "returned"]
    /\ tk_res' = error
    /\ UNCHANGED names

\* SourceStream stream(source); stream.skip_whitespace();
TokenizeBegin ==
    /\ lexer.pc = "start"
    /\ lexer' = [lexer EXCEPT !.stream = skip_whitespace(@), !.pc = "loop"]
    /\ UNCHANGED <<tk_res, names, tokens, parser, mod, pc, result>>

\* case '+': ... case '|':
TokenizeOperator ==
    /\ InLoop
    /\ tokenize_c \in OperatorChars
    /\ Bind(operator(tokenize_s, tokenize_c), LAMBDA o :
            Pushed(o.p, Token(o.r, tokenize_loc)))
    /\ UNCHANGED <<tokens, parser, mod, pc, result>>

\* case ';': ... case ']':
TokenizePunctuation ==
    /\ InLoop
    /\ tokenize_c \in PunctuationChars
    /\ Pushed(tokenize_s, Token(tokenize_c, tokenize_loc))
    /\ UNCHANGED <<tokens, parser, mod, pc, result>>

\* case ':':
TokenizeColon ==
    /\ InLoop
    /\ tokenize_c = ":"
    /\ Bind(SourceStream_match(tokenize_s, ":"), LAMBDA m :
            IF ~m.r
            THEN Returned(m.p, TokenizeResult_from_error(tokenize_loc,
                                                         "Expected '::'"))
            ELSE Pushed(m.p, Token("::", tokenize_loc)))
    /\ UNCHANGED <<tokens, parser, mod, pc, result>>

\* case '"': res.str_literals.push_back(stream.consumeString());
\* tokens.push_back(Token::from_string(loc, res.str_literals.size() - 1));
TokenizeString ==
    /\ InLoop
    /\ tokenize_c = "\""
    /\ Bind(consumeString(tokenize_s), LAMBDA str :
            lexer' = [lexer EXCEPT
                !.stream = skip_whitespace(str.p),
                !.res.str_literals = Append(@, str.r),
                !.res.tokens = Append(@, Token_from_string(tokenize_loc,
                                   Len(lexer.res.str_literals) + 1 - 1))])
    /\ UNCHANGED <<tk_res, names>>
    /\ UNCHANGED <<tokens, parser, mod, pc, result>>

\* default: if (std::isdigit(c))
TokenizeInteger ==
    /\ InLoop
    /\ isdigit(tokenize_c)
    /\ Bind(integer(tokenize_s, tokenize_c), LAMBDA i :
            IF i.r.overflow
            THEN Returned(i.p, TokenizeResult_from_error(tokenize_loc,
                                   "Integer literal overflow"))
            ELSE Pushed(i.p, Token_from_integer(tokenize_loc, i.r.val)))
    /\ UNCHANGED <<tokens, parser, mod, pc, result>>

\* else if (std::isalpha(c) || c == '_')
TokenizeIdentifier ==
    /\ InLoop
    /\ isalpha(tokenize_c) \/ tokenize_c = "_"
    /\ Bind(consumeIdentifier(tokenize_s), LAMBDA id :
            IF match_keyword(id.r) # "(identifier)"
            THEN Pushed(id.p, Token(match_keyword(id.r), tokenize_loc))
            ELSE /\ lexer' = [lexer EXCEPT
                         !.stream = skip_whitespace(id.p),
                         !.res.tokens = Append(@,
                             Token_from_identifier(tokenize_loc,
                                 get_id_or_insert(names, id.r)))]
                 /\ names' = insert_name(names, id.r)
                 /\ UNCHANGED tk_res)
    /\ UNCHANGED <<tokens, parser, mod, pc, result>>

\* else: "Unexpected character"
TokenizeUnexpected ==
    /\ InLoop
    /\ tokenize_c \notin OperatorChars \cup PunctuationChars \cup {":", "\""}
    /\ ~isdigit(tokenize_c)
    /\ ~(isalpha(tokenize_c) \/ tokenize_c = "_")
    /\ Returned(tokenize_s,
                TokenizeResult_from_error(tokenize_loc, "Unexpected character"))
    /\ UNCHANGED <<tokens, parser, mod, pc, result>>

\* The loop ends: tokens.emplace_back(TK("(eof)"), stream.location());
\* return res;
\* A variant of the return of tokenize that appends no (eof) token.
TokenizeEof_without_token ==
    /\ lexer.pc = "loop"
    /\ SourceStream_eof(lexer.stream)
    /\ lexer' = [lexer EXCEPT !.pc = "returned"]
    /\ tk_res' = lexer.res
    /\ UNCHANGED <<names, tokens, parser, mod, pc, result>>

\* tokens.emplace_back(TK("(eof)"), stream.location()); return res;
TokenizeEof ==
    /\ lexer.pc = "loop"
    /\ SourceStream_eof(lexer.stream)
    /\ lexer' = [lexer EXCEPT
            !.res.tokens = Append(@, Token("(eof)", lexer.stream.cur_loc)),
            !.pc = "returned"]
    /\ tk_res' = [lexer.res EXCEPT
            !.tokens = Append(@, Token("(eof)", lexer.stream.cur_loc))]
    /\ UNCHANGED <<names, tokens, parser, mod, pc, result>>

(***************************************************************************)
(* ScopedLocalNameTable.                                                   *)
(***************************************************************************)
\* numeric_limits<size_t>::max(), written as the -1 it is the unsigned image of.
SLT_INVALID_ID == -1

ScopedLocalNameTable == [next_id |-> 0, scopes |-> <<>>, local_names |-> <<>>]

SLT_get(t, name) ==
    IF name \notin DOMAIN t.local_names
    THEN SLT_INVALID_ID
    ELSE t.local_names[name][Len(t.local_names[name])]

\* local_names[name] default-constructs an empty stack for a new key.
SLT_stack(t, name) ==
    IF name \in DOMAIN t.local_names THEN t.local_names[name] ELSE <<>>

SLT_put(t, name, stk) ==
    [n \in (DOMAIN t.local_names) \cup {name} |->
        IF n = name THEN stk ELSE t.local_names[n]]

\* A variant of add that pushes next_id without incrementing it.
SLT_add_same_slot(t, name) ==
    [t EXCEPT !.local_names = SLT_put(t, name, Append(SLT_stack(t, name), t.next_id))]

\* add pushes next_id on the name's stack and post-increments next_id; it
\* records nothing in scopes.top().
SLT_add(t, name) ==
    [t EXCEPT !.local_names = SLT_put(t, name, Append(SLT_stack(t, name), t.next_id)),
              !.next_id = @ + 1]

SLT_enter_scope(t) == [t EXCEPT !.scopes = Append(@, <<>>)]

\* One iteration of the loop of leave_scope: pop the stack of `name`, erase
\* the entry when the stack is empty.
SLT_pop_name(t, name) ==
    LET stk == SubSeq(SLT_stack(t, name), 1, Len(SLT_stack(t, name)) - 1) IN
    IF stk = <<>>
    THEN [t EXCEPT !.local_names =
              [n \in (DOMAIN t.local_names) \ {name} |-> t.local_names[n]]]
    ELSE [t EXCEPT !.local_names = SLT_put(t, name, stk)]

RECURSIVE SLT_pop_all(_, _)
SLT_pop_all(t, ns) ==
    IF ns = <<>> THEN t ELSE SLT_pop_all(SLT_pop_name(t, Head(ns)), Tail(ns))

SLT_leave_scope(t) ==
    LET popped == SLT_pop_all(t, t.scopes[Len(t.scopes)]) IN
    [popped EXCEPT !.scopes = SubSeq(@, 1, Len(@) - 1)]

SLT_size(t) == t.next_id

(***************************************************************************)
(* Expression tree.                                                        *)
(***************************************************************************)
nullptr == [k |-> "nullptr"]
ExprTreeSimpleLeaf(type) == [k |-> "leaf", type |-> type]
ExprTreeLitInt(val) == [k |-> "int", val |-> val]
ExprTreeLitNum(val) == [k |-> "num", val |-> val]
ExprTreeLitStr(str_id) == [k |-> "str", str_id |-> str_id]
ExprTreeLitBool(val) == [k |-> "bool", val |-> val]
ExprTreeLocal(local_id) == [k |-> "local", local_id |-> local_id]
ExprTreeGlobal(name) == [k |-> "global", name |-> name]
ExprTreeUnOp(expr, type) == [k |-> "un", expr |-> expr, type |-> type]
ExprTreeBinOp(lhs, rhs, type) == [k |-> "bin", lhs |-> lhs, rhs |-> rhs, type |-> type]
\* A variant of ExprTreeCall that keeps the arguments in reverse order.
ExprTreeCall_reversed(func, args) ==
    [k |-> "call", func |-> func,
     args |-> [i \in 1..Len(args) |-> args[Len(args) + 1 - i]]]

ExprTreeCall(func, args) == [k |-> "call", func |-> func, args |-> args]

\* lvalue_type(): SIMPLE for local and global nodes, NONE for every other.
lvalue_type(node) == IF node.k \in {"local", "global"} THEN "SIMPLE" ELSE "NONE"

\* emit(): the instructions the node appends to func.instructions.
RECURSIVE emit(_), emit_args(_)
emit(node) ==
    CASE node.k = "leaf"   -> <<Instr0(node.type)>>
      [] node.k = "int"    -> <<Instr("LII", node.val)>>
      [] node.k = "num"    -> <<Instr("LIN", node.val)>>
      [] node.k = "str"    -> <<Instr("LISTR", node.str_id)>>
      [] node.k = "bool"   -> <<Instr("LIBOOL", IF node.val THEN 1 ELSE 0)>>
      [] node.k = "local"  -> <<Instr("LDLOCAL", node.local_id)>>
      [] node.k = "global" -> <<Instr("LDGLOBAL", node.name)>>
      [] node.k = "un"     -> emit(node.expr) \o <<Instr0(node.type)>>
      [] node.k = "bin"    -> emit(node.lhs) \o emit(node.rhs) \o <<Instr0(node.type)>>
      [] node.k = "call"   -> emit_args(node.args) \o emit(node.func)
                                \o <<Instr("CALL", Len(node.args))>>
emit_args(args) ==
    IF args = <<>> THEN <<>> ELSE emit(Head(args)) \o emit_args(Tail(args))

\* emit_store(): STLOCAL / STGLOBAL for the lvalue nodes, nothing otherwise.
emit_store(node) ==
    CASE node.k = "local"  -> <<Instr("STLOCAL", node.local_id)>>
      [] node.k = "global" -> <<Instr("STGLOBAL", node.name)>>
      [] OTHER             -> <<>>

(***************************************************************************)
(* Operator tables.                                                        *)
(***************************************************************************)
OP_PRECEDENCE_TABLE(type) ==
    CASE type \in {"||", "&&"}           -> 40
      [] type = "|"                      -> 50
      [] type = "^"                      -> 51
      [] type = "&"                      -> 52
      [] type \in {"==", "!="}           -> 60
      [] type \in {"<", ">", "<=", ">="} -> 65
      [] type \in {"<<", ">>"}           -> 70
      [] type \in {"+", "-"}             -> 80
      [] type \in {"*", "/", "//", "%"}  -> 90
      [] type = "**"                     -> 95
      [] type \in {"[", "("}             -> 100
      [] type = "."                      -> 110
      [] OTHER                           -> -1

OP_TO_INSTR_TABLE(type) ==
    CASE type \in {"+", "+="}     -> "ADD"
      [] type \in {"-", "-="}     -> "SUB"
      [] type \in {"*", "*="}     -> "MUL"
      [] type \in {"/", "/="}     -> "DIV"
      [] type \in {"//", "//="}   -> "IDIV"
      [] type \in {"%", "%="}     -> "MOD"
      [] type \in {"**", "**="}   -> "POW"
      [] type \in {"<<", "<<="}   -> "SHL"
      [] type \in {">>", ">>="}   -> "SHR"
      [] type \in {"&", "&="}     -> "BAND"
      [] type \in {"|", "|="}     -> "BOR"
      [] type \in {"^", "^="}     -> "BXOR"
      [] type = "~"               -> "BNOT"
      [] type = "=="              -> "EQ"
      [] type = "!="              -> "NE"
      [] type = "<"               -> "LT"
      [] type = ">"               -> "GT"
      [] type = "<="              -> "LE"
      [] type = ">="              -> "GE"
      [] type = "&&"              -> "AND"
      [] type = "||"              -> "OR"
      [] type = "!"               -> "NOT"
      [] OTHER                    -> "INVALID"

OP_IS_ASSIGNMENT_TABLE(type) ==
    type \in {"=", "+=", "-=", "*=", "/=", "//=", "%=", "**=", "<<=", ">>=",
              "&=", "|=", "^="}

(***************************************************************************)
(* Parser: the token cursor.  A parser state p holds the mutable members   *)
(* of Parser and the BytecodeFunction under construction; `emplaced` is    *)
(* the history of error.emplace(...) calls, in order, and `crashed` says   *)
(* that the call stack was exhausted.  A routine returns Ret(p, r): the    *)
(* parser state it leaves and its C++ return value.                        *)
(***************************************************************************)
has_error(p) == p.error.has_value

\* error.emplace(message, location): replaces whatever error is held.
emplace_error(p, message, location) ==
    [p EXCEPT !.error = SyntaxError(message, location),
              !.emplaced = Append(@, SyntaxError(message, location))]

peek(p) == tokens[p.pos + 1]

eof(p) == tokens[p.pos + 1].type = "(eof)"

\* A variant of consume that advances at (eof) too.
consume_unconditionally(p) == [p EXCEPT !.pos = @ + 1]

\* consume() returns the current token, which is peek(p) taken before the
\* call, and advances unless at (eof).
consume(p) == IF eof(p) THEN p ELSE [p EXCEPT !.pos = @ + 1]

match(p, type) ==
    IF peek(p).type = type THEN Ret(consume(p), TRUE) ELSE Ret(p, FALSE)

\* expect() consumes unconditionally; r is the consumed token.
expect(p, type) ==
    LET token == peek(p) IN
    IF token.type # type
    THEN Ret(emplace_error(consume(p),
                 "expected " \o type \o ", got " \o token.type, token.loc), token)
    ELSE Ret(consume(p), token)

\* func.instructions.emplace_back(...) for each instruction of `is`.
emit_into(p, is) == [p EXCEPT !.func.instructions = @ \o is]

\* The process dies when the recursion outgrows the stack.
StackOverflow(p) == [p EXCEPT !.crashed = TRUE]

(***************************************************************************)
(* Parser: expressions (Pratt).  d is the depth of the activation.         *)
(***************************************************************************)
RECURSIVE parse_expr_bin(_, _, _), parse_expr_bin_loop(_, _, _, _),
          parse_expr_un(_, _), parse_expr_primary(_, _),
          parse_value_list(_, _, _, _)

parse_expr_et(p, precedence, d) == parse_expr_bin(p, precedence, d + 1)

\* A variant of the loop that parses every right operand at precedence 0
\* instead of the operator's own.
parse_expr_bin_loop_flat(p, left, precedence, d) ==
    IF OP_PRECEDENCE_TABLE(peek(p).type) < precedence
    THEN Ret(p, left)
    ELSE IF peek(p).type = "("
    THEN Bind(parse_value_list(consume(p), <<>>, ")", d + 1), LAMBDA args :
            IF ~args.r.ok
            THEN Ret(args.p, nullptr)
            ELSE parse_expr_bin_loop(args.p, ExprTreeCall(left, args.r.values),
                                     precedence, d))
    ELSE Bind(parse_expr_bin(consume(p), 0, d + 1), LAMBDA right :
            IF right.r = nullptr
            THEN right
            ELSE parse_expr_bin_loop(right.p,
                     ExprTreeBinOp(left, right.r, OP_TO_INSTR_TABLE(peek(p).type)),
                     precedence, d))

\* The while loop of parse_expr_bin, entered with the tree built so far;
\* op = consume() is peek(p), the cursor moves to consume(p).
parse_expr_bin_loop(p, left, precedence, d) ==
    IF OP_PRECEDENCE_TABLE(peek(p).type) < precedence
    THEN Ret(p, left)
    ELSE IF peek(p).type = "("
    THEN Bind(parse_value_list(consume(p), <<>>, ")", d + 1), LAMBDA args :
            IF ~args.r.ok
            THEN Ret(args.p, nullptr)
            ELSE parse_expr_bin_loop(args.p, ExprTreeCall(left, args.r.values),
                                     precedence, d))
    ELSE Bind(parse_expr_bin(consume(p), OP_PRECEDENCE_TABLE(peek(p).type), d + 1),
              LAMBDA right :
            IF right.r = nullptr
            THEN right
            ELSE parse_expr_bin_loop(right.p,
                     ExprTreeBinOp(left, right.r, OP_TO_INSTR_TABLE(peek(p).type)),
                     precedence, d))

parse_expr_bin(p, precedence, d) ==
    Bind(parse_expr_un(p, d + 1), LAMBDA left :
        IF left.r = nullptr
        THEN left
        ELSE parse_expr_bin_loop(left.p, left.r, precedence, d))

\* The unary cases call parse_expr_un() again without consuming the operator
\* token, so the nested activation sees the same token.
parse_expr_un(p, d) ==
    IF d > StackLimit
    THEN Ret(StackOverflow(p), nullptr)
    ELSE CASE peek(p).type = "-" ->
                Bind(parse_expr_un(p, d + 1), LAMBDA expr :
                    IF expr.p.crashed
                    THEN expr
                    ELSE Ret(expr.p, ExprTreeUnOp(expr.r, "NEG")))
           [] peek(p).type \in {"!", "~"} ->
                Bind(parse_expr_un(p, d + 1), LAMBDA expr :
                    IF expr.p.crashed
                    THEN expr
                    ELSE Ret(expr.p, ExprTreeUnOp(expr.r,
                                         OP_TO_INSTR_TABLE(peek(p).type))))
           [] OTHER -> parse_expr_primary(p, d + 1)

\* The while (!match(term)) loop of parse_value_list; r = [ok, values].
parse_value_list(p, values, term, d) ==
    IF match(p, term).r
    THEN Ret(match(p, term).p, [ok |-> TRUE, values |-> values])
    ELSE Bind(parse_expr_et(p, 0, d + 1), LAMBDA arg :
            IF arg.r = nullptr
            THEN Ret(arg.p, [ok |-> FALSE, values |-> values])
            ELSE IF peek(arg.p).type # term
            THEN Bind(expect(arg.p, ","), LAMBDA e :
                    IF has_error(e.p)
                    THEN Ret(e.p, [ok |-> FALSE, values |-> values])
                    ELSE parse_value_list(e.p, Append(values, arg.r), term, d))
            ELSE parse_value_list(arg.p, Append(values, arg.r), term, d))

parse_expr_primary(p, d) ==
    CASE peek(p).type = "(" ->
            Bind(parse_expr_et(consume(p), 0, d + 1), LAMBDA expr :
                IF expr.r = nullptr
                THEN expr
                ELSE Bind(expect(expr.p, ")"), LAMBDA e :
                        IF has_error(e.p) THEN Ret(e.p, nullptr)
                        ELSE Ret(e.p, expr.r)))
      [] peek(p).type = "(identifier)" ->
            IF SLT_get(p.local_names, peek(p).val) = SLT_INVALID_ID
            THEN Ret(consume(p), ExprTreeGlobal(peek(p).val))
            ELSE Ret(consume(p), ExprTreeLocal(SLT_get(p.local_names, peek(p).val)))
      [] peek(p).type = "TRUE"      -> Ret(consume(p), ExprTreeLitBool(TRUE))
      [] peek(p).type = "FALSE"     -> Ret(consume(p), ExprTreeLitBool(FALSE))
      [] peek(p).type = "NULL"      -> Ret(consume(p), ExprTreeSimpleLeaf("LINULL"))
      [] peek(p).type = "(integer)" -> Ret(consume(p), ExprTreeLitInt(peek(p).val))
      [] peek(p).type = "(number)"  -> Ret(consume(p), ExprTreeLitNum(peek(p).val))
      [] peek(p).type = "(string)"  -> Ret(consume(p), ExprTreeLitStr(peek(p).val))
      [] OTHER -> Ret(emplace_error(p, "primary expression expected", peek(p).loc),
                      nullptr)

\* parse_expr: build the tree, then emit it into func.
parse_expr(p, precedence, d) ==
    Bind(parse_expr_et(p, precedence, d + 1), LAMBDA expr :
        IF expr.r = nullptr
        THEN Ret(expr.p, FALSE)
        ELSE Ret(emit_into(expr.p, emit(expr.r)), TRUE))

(***************************************************************************)
(* Parser: statements.                                                     *)
(***************************************************************************)
\* func.instructions.size()
size(p) == Len(p.func.instructions)

\* for (auto jump : jumps) func.instructions[jump].idx() = target;
patch(p, jumps, target) ==
    [p EXCEPT !.func.instructions =
        [i \in 1..Len(@) |->
            IF \E j \in 1..Len(jumps) : jumps[j] = i - 1
            THEN [@[i] EXCEPT !.arg = target]
            ELSE @[i]]]

\* bool parse_assign: tk = consume() is the assignment operator token.
parse_assign(p, d) ==
    Bind(parse_expr_et(p, 0, d + 1), LAMBDA lhs :
        IF lhs.r = nullptr
        THEN Ret(lhs.p, FALSE)
        ELSE IF match(lhs.p, ";").r
        THEN Ret(emit_into(match(lhs.p, ";").p,
                           emit(lhs.r) \o <<Instr("POPN", 1)>>), TRUE)
        ELSE IF ~OP_IS_ASSIGNMENT_TABLE(peek(lhs.p).type)
        THEN Ret(emplace_error(lhs.p, "unexpected token", peek(lhs.p).loc), FALSE)
        ELSE IF lvalue_type(lhs.r) = "NONE"
        THEN Ret(emplace_error(consume(lhs.p), "cannot assign to rvalue",
                               peek(lhs.p).loc), FALSE)
        ELSE Bind(parse_expr(consume(lhs.p), 0, d + 1), LAMBDA rhs :
            IF ~rhs.r
            THEN Ret(rhs.p, FALSE)
            ELSE IF lvalue_type(lhs.r) # "SIMPLE"
            THEN Ret(emplace_error(rhs.p, "TDOD: assign to member",
                                   peek(lhs.p).loc), FALSE)
            ELSE Bind(expect(emit_into(rhs.p,
                          IF peek(lhs.p).type = "="
                          THEN emit_store(lhs.r)
                          ELSE emit(lhs.r)
                               \o <<Instr0("SWP"),
                                    Instr0(OP_TO_INSTR_TABLE(peek(lhs.p).type))>>
                               \o emit_store(lhs.r)), ";"),
                      LAMBDA e : Ret(e.p, ~has_error(e.p)))))

\* The Return case of parse_statement.
parse_return(p, d) ==
    IF peek(consume(p)).type = ";"
    THEN Bind(expect(emit_into(consume(p), <<Instr0("RETNULL")>>), ";"),
              LAMBDA e : Ret(e.p, ~has_error(e.p)))
    ELSE Bind(parse_expr(consume(p), 0, d + 1), LAMBDA x :
            IF ~x.r
            THEN Ret(x.p, FALSE)
            ELSE Bind(expect(emit_into(x.p, <<Instr0("RET")>>), ";"),
                      LAMBDA e : Ret(e.p, ~has_error(e.p))))

\* parse_declare, the end of a round: r is "break" after ';', "continue"
\* after ',' and "return false" otherwise.
parse_declare_next(p) ==
    IF match(p, ";").r
    THEN Ret(match(p, ";").p, "break")
    ELSE Bind(expect(p, ","), LAMBDA c :
            IF has_error(c.p) THEN Ret(c.p, "return false")
            ELSE Ret(c.p, "continue"))

\* A variant of a round of parse_declare without the check of local_names.
parse_declare_item_rebinding(p, d) ==
    Bind(expect(p, "(identifier)"), LAMBDA token :
        IF has_error(token.p)
        THEN Ret(token.p, "return false")
        ELSE Bind([token.p EXCEPT !.local_names = SLT_add(@, token.r.val),
                                  !.func.local_count = @ + 1], LAMBDA q :
            IF match(q, "=").r
            THEN Bind(parse_expr(match(q, "=").p, 0, d + 1), LAMBDA x :
                    IF ~x.r
                    THEN Ret(x.p, "return false")
                    ELSE parse_declare_next(emit_into(x.p,
                             <<Instr("LDLOCAL", x.p.func.local_count - 1)>>)))
            ELSE parse_declare_next(q)))

\* A variant of a round of parse_declare that stores the initializer into
\* the slot.
parse_declare_item_store(p, d) ==
    Bind(expect(p, "(identifier)"), LAMBDA token :
        IF has_error(token.p)
        THEN Ret(token.p, "return false")
        ELSE IF SLT_get(token.p.local_names, token.r.val) # SLT_INVALID_ID
        THEN Ret(emplace_error(token.p,
                     "variable " \o get_name(token.r.val) \o " already declared",
                     token.r.loc), "return false")
        ELSE Bind([token.p EXCEPT !.local_names = SLT_add(@, token.r.val),
                                  !.func.local_count = @ + 1], LAMBDA q :
            IF match(q, "=").r
            THEN Bind(parse_expr(match(q, "=").p, 0, d + 1), LAMBDA x :
                    IF ~x.r
                    THEN Ret(x.p, "return false")
                    ELSE parse_declare_next(emit_into(x.p,
                             <<Instr("STLOCAL", x.p.func.local_count - 1)>>)))
            ELSE parse_declare_next(q)))

\* A variant of a round of parse_declare that reloads the slot whether or
\* not the name has an initializer.
parse_declare_item_always_reload(p, d) ==
    Bind(expect(p, "(identifier)"), LAMBDA token :
        IF has_error(token.p)
        THEN Ret(token.p, "return false")
        ELSE IF SLT_get(token.p.local_names, token.r.val) # SLT_INVALID_ID
        THEN Ret(emplace_error(token.p,
                     "variable " \o get_name(token.r.val) \o " already declared",
                     token.r.loc), "return false")
        ELSE Bind([token.p EXCEPT !.local_names = SLT_add(@, token.r.val),
                                  !.func.local_count = @ + 1], LAMBDA q :
            IF match(q, "=").r
            THEN Bind(parse_expr(match(q, "=").p, 0, d + 1), LAMBDA x :
                    IF ~x.r
                    THEN Ret(x.p, "return false")
                    ELSE parse_declare_next(emit_into(x.p,
                             <<Instr("LDLOCAL", x.p.func.local_count - 1)>>)))
            ELSE parse_declare_next(emit_into(q,
                     <<Instr("LDLOCAL", q.func.local_count - 1)>>))))

\* One round of the while (true) loop of parse_declare: one declared item;
\* q is the parser after local_names.add(id); func.local_count++.
parse_declare_item(p, d) ==
    Bind(expect(p, "(identifier)"), LAMBDA token :
        IF has_error(token.p)
        THEN Ret(token.p, "return false")
        ELSE IF SLT_get(token.p.local_names, token.r.val) # SLT_INVALID_ID
        THEN Ret(emplace_error(token.p,
                     "variable " \o get_name(token.r.val) \o " already declared",
                     token.r.loc), "return false")
        ELSE Bind([token.p EXCEPT !.local_names = SLT_add(@, token.r.val),
                                  !.func.local_count = @ + 1], LAMBDA q :
            IF match(q, "=").r
            THEN Bind(parse_expr(match(q, "=").p, 0, d + 1), LAMBDA x :
                    IF ~x.r
                    THEN Ret(x.p, "return false")
                    ELSE parse_declare_next(emit_into(x.p,
                             <<Instr("LDLOCAL", x.p.func.local_count - 1)>>)))
            ELSE parse_declare_next(q)))

\* r of a round of parse_if_cond: last says that the loop has ended.
IfCondResult(ok, last, then_jmps, else_jmps) ==
    [ok |-> ok, last |-> last, then_jmps |-> then_jmps, else_jmps |-> else_jmps]

\* parse_if_cond from its loop condition on: while (peek().type !=
\* TK("Then")) goes round again; else the final JZ, recorded in else_jmps.
parse_if_cond_while(p, then_jmps, else_jmps) ==
    IF peek(p).type # "Then"
    THEN Ret(p, IfCondResult(TRUE, FALSE, then_jmps, else_jmps))
    ELSE Bind(emit_into(p, <<Instr0("JZ")>>), LAMBDA q :
            Ret(q, IfCondResult(TRUE, TRUE, then_jmps,
                                Append(else_jmps, size(q) - 1))))

\* A variant of a round of parse_if_cond that records the JNZ of a || in
\* else_jmps.
parse_if_cond_round_one_list(p, then_jmps, else_jmps, d) ==
    Bind(parse_expr(p, OP_PRECEDENCE_TABLE("||") + 1, d + 1), LAMBDA x :
        IF ~x.r
        THEN Ret(x.p, IfCondResult(FALSE, FALSE, then_jmps, else_jmps))
        ELSE IF match(x.p, "||").r
        THEN Bind(emit_into(match(x.p, "||").p, <<Instr0("JNZ")>>), LAMBDA q :
                parse_if_cond_while(q, then_jmps, Append(else_jmps, size(q) - 1)))
        ELSE IF match(x.p, "&&").r
        THEN Bind(emit_into(match(x.p, "&&").p, <<Instr0("JZ")>>), LAMBDA q :
                parse_if_cond_while(q, then_jmps, Append(else_jmps, size(q) - 1)))
        ELSE parse_if_cond_while(x.p, then_jmps, else_jmps))

\* One round of the do-while loop of parse_if_cond: a sub-expression parsed
\* above || and &&, then the JNZ of a || or the JZ of a &&.
parse_if_cond_round(p, then_jmps, else_jmps, d) ==
    Bind(parse_expr(p, OP_PRECEDENCE_TABLE("||") + 1, d + 1), LAMBDA x :
        IF ~x.r
        THEN Ret(x.p, IfCondResult(FALSE, FALSE, then_jmps, else_jmps))
        ELSE IF match(x.p, "||").r
        THEN Bind(emit_into(match(x.p, "||").p, <<Instr0("JNZ")>>), LAMBDA q :
                parse_if_cond_while(q, Append(then_jmps, size(q) - 1), else_jmps))
        ELSE IF match(x.p, "&&").r
        THEN Bind(emit_into(match(x.p, "&&").p, <<Instr0("JZ")>>), LAMBDA q :
                parse_if_cond_while(q, then_jmps, Append(else_jmps, size(q) - 1)))
        ELSE parse_if_cond_while(x.p, then_jmps, else_jmps))

\* The while (true) loop over the parameters of parse_function.
RECURSIVE parse_function_params(_)
parse_function_params(p) ==
    Bind(expect(p, "(identifier)"), LAMBDA token :
        IF has_error(token.p)
        THEN Ret(token.p, FALSE)
        ELSE IF SLT_get(token.p.local_names, token.r.val) # SLT_INVALID_ID
        THEN Ret(emplace_error(token.p,
                     "duplicate local name " \o get_name(token.r.val),
                     token.r.loc), FALSE)
        ELSE Bind([token.p EXCEPT !.local_names = SLT_add(@, token.r.val),
                                  !.func.arg_count = @ + 1,
                                  !.func.local_count = @ + 1], LAMBDA q :
            IF match(q, ")").r
            THEN Ret(match(q, ")").p, TRUE)
            ELSE Bind(expect(q, ","), LAMBDA c :
                    IF has_error(c.p) THEN Ret(c.p, FALSE)
                    ELSE parse_function_params(c.p))))

\* A variant of parse_function that keeps the local_names of the function
\* before.
parse_function_header_no_reset(p) ==
    IF has_error(p)
    THEN Ret(p, FALSE)
    ELSE Bind(expect([p EXCEPT !.func = BytecodeFunction], "Function"),
              LAMBDA f :
        IF has_error(f.p)
        THEN Ret(f.p, FALSE)
        ELSE Bind(expect(f.p, "(identifier)"), LAMBDA name :
            IF has_error(name.p)
            THEN Ret(name.p, FALSE)
            ELSE Bind(expect([name.p EXCEPT !.func.name = name.r.val], "("),
                      LAMBDA open :
                IF has_error(open.p)
                THEN Ret(open.p, FALSE)
                ELSE IF match(open.p, ")").r
                THEN Ret(match(open.p, ")").p, TRUE)
                ELSE parse_function_params(open.p))))

\* A variant of parse_function that goes on to expect(TK("(")) without the
\* has_error() check after the name.
parse_function_header_unchecked(p) ==
    IF has_error(p)
    THEN Ret(p, FALSE)
    ELSE Bind(expect([p EXCEPT !.local_names = ScopedLocalNameTable,
                               !.func = BytecodeFunction], "Function"),
              LAMBDA f :
        IF has_error(f.p)
        THEN Ret(f.p, FALSE)
        ELSE Bind(expect(f.p, "(identifier)"), LAMBDA name :
            Bind(expect([name.p EXCEPT !.func.name = name.r.val], "("),
                 LAMBDA open :
                IF has_error(open.p)
                THEN Ret(open.p, FALSE)
                ELSE IF match(open.p, ")").r
                THEN Ret(match(open.p, ")").p, TRUE)
                ELSE parse_function_params(open.p))))

\* parse_function up to the call of parse_block: the reset of local_names,
\* the name and the parameter list.  r is FALSE where it returns nullopt.
parse_function_header(p) ==
    IF has_error(p)
    THEN Ret(p, FALSE)
    ELSE Bind(expect([p EXCEPT !.local_names = ScopedLocalNameTable,
                               !.func = BytecodeFunction], "Function"),
              LAMBDA f :
        IF has_error(f.p)
        THEN Ret(f.p, FALSE)
        ELSE Bind(expect(f.p, "(identifier)"), LAMBDA name :
            IF has_error(name.p)
            THEN Ret(name.p, FALSE)
            ELSE Bind(expect([name.p EXCEPT !.func.name = name.r.val], "("),
                      LAMBDA open :
                IF has_error(open.p)
                THEN Ret(open.p, FALSE)
                ELSE IF match(open.p, ")").r
                THEN Ret(match(open.p, ")").p, TRUE)
                ELSE parse_function_params(open.p))))

(***************************************************************************)
(* Frames of the statement machine: the activations of parse_block,        *)
(* parse_declare and parse_if_else that are in progress are the frames of  *)
(* p.stack, innermost last.                                                *)
(***************************************************************************)
BlockFrame(if_block) == [k |-> "block", if_block |-> if_block]
DeclareFrame == [k |-> "declare"]
\* phase: "cond" in parse_if_cond, "branch" in the block of an If / ElseIf,
\* "after" past such a block, "else" in the block of the Else.
IfFrame(phase, then_jumps, else_jumps, end_jumps) ==
    [k |-> "if", phase |-> phase, then_jumps |-> then_jumps,
     else_jumps |-> else_jumps, end_jumps |-> end_jumps]

top(p) == p.stack[Len(p.stack)]
push(p, frame) == [p EXCEPT !.stack = Append(@, frame)]
pop(p) == [p EXCEPT !.stack = SubSeq(@, 1, Len(@) - 1)]
set_top(p, frame) == [p EXCEPT !.stack[Len(p.stack)] = frame]

\* parse_block, entry: local_names.enter_scope(), then its loop.
enter_block(p, if_block) ==
    push([p EXCEPT !.local_names = SLT_enter_scope(@)], BlockFrame(if_block))

\* parse_block, after the break: local_names.leave_scope(); return true.
leave_block(p) == pop([p EXCEPT !.local_names = SLT_leave_scope(@)])

\* The activations of the expression routines start below the frames.
depth(p) == Len(p.stack)

(***************************************************************************)
(* Parser: the module loop and the statement machine, one action per step. *)
(***************************************************************************)
\* A variant of the constructor that does not take the error of tk_res.
Construct_without_error ==
    /\ pc = "start"
    /\ tokens' = tk_res.tokens
    /\ parser' = [pos |-> 0, error |-> nullopt, emplaced |-> <<>>,
                  str_lits |-> tk_res.str_literals,
                  local_names |-> ScopedLocalNameTable,
                  func |-> BytecodeFunction, stack |-> <<>>, crashed |-> FALSE]
    /\ pc' = "parse"
    /\ UNCHANGED <<lexer, tk_res, names, mod, result>>

\* Parser::Parser(tk_res, nt): tokens, error and str_lits come from tk_res.
Construct ==
    /\ pc = "start"
    /\ tokens' = tk_res.tokens
    /\ parser' = [pos |-> 0, error |-> tk_res.error, emplaced |-> <<>>,
                  str_lits |-> tk_res.str_literals,
                  local_names |-> ScopedLocalNameTable,
                  func |-> BytecodeFunction, stack |-> <<>>, crashed |-> FALSE]
    /\ pc' = "parse"
    /\ UNCHANGED <<lexer, tk_res, names, mod, result>>

\* Parser::parse, entry: an error carried by the TokenizeResult ends it.
ParseHasError ==
    /\ pc = "parse"
    /\ has_error(parser)
    /\ pc' = "nullopt"
    /\ UNCHANGED <<lexer, tk_res, names, tokens, parser, mod, result>>

ParseBegin ==
    /\ pc = "parse"
    /\ ~has_error(parser)
    /\ mod' = BytecodeModule
    /\ pc' = "module"
    /\ UNCHANGED <<lexer, tk_res, names, tokens, parser, result>>

\* A routine returned false: each caller returns false in turn, parse_function
\* returns std::nullopt and so does Parser::parse.
Fail(p) ==
    /\ parser' = [p EXCEPT !.stack = <<>>]
    /\ pc' = "nullopt"
    /\ UNCHANGED <<mod, result>>

\* The stack is exhausted: the process ends and parse() never returns.
Crash(p) ==
    /\ parser' = p
    /\ pc' = "returned"
    /\ result' = [kind |-> "crashed"]
    /\ UNCHANGED mod

\* The routine returned true and parsing goes on in state p.
Continue(p) ==
    /\ parser' = p
    /\ UNCHANGED <<pc, mod, result>>

\* What follows the return of a routine that left state p with outcome ok,
\* parsing going on in state next when ok.
Proceed(p, ok, next) ==
    IF p.crashed THEN Crash(p) ELSE IF ~ok THEN Fail(p) ELSE Continue(next)

\* case TK("Function"): parse_function up to its call of parse_block.
ParseFunctionItem ==
    /\ pc = "module"
    /\ ~eof(parser)
    /\ peek(parser).type = "Function"
    /\ Bind(parse_function_header(parser), LAMBDA h :
            IF h.r
            THEN /\ parser' = enter_block(h.p, FALSE)
                 /\ pc' = "function"
                 /\ UNCHANGED <<mod, result>>
            ELSE Fail(h.p))
    /\ UNCHANGED <<lexer, tk_res, names, tokens>>

ParseDeclareItem ==
    /\ pc = "module"
    /\ ~eof(parser)
    /\ peek(parser).type = "Declare"
    /\ parser' = emplace_error(parser,
                     "global variable declarations not implemented yet",
                     peek(parser).loc)
    /\ pc' = "nullopt"
    /\ UNCHANGED <<lexer, tk_res, names, tokens, mod, result>>

ParseImportItem ==
    /\ pc = "module"
    /\ ~eof(parser)
    /\ peek(parser).type = "Import"
    /\ parser' = emplace_error(parser, "imports not implemented yet",
                               peek(parser).loc)
    /\ pc' = "nullopt"
    /\ UNCHANGED <<lexer, tk_res, names, tokens, mod, result>>

ParseOtherItem ==
    /\ pc = "module"
    /\ ~eof(parser)
    /\ peek(parser).type \notin {"Function", "Declare", "Import"}
    /\ parser' = emplace_error(parser,
                     peek(parser).type \o " can not appear at the top-level of a module",
                     peek(parser).loc)
    /\ pc' = "nullopt"
    /\ UNCHANGED <<lexer, tk_res, names, tokens, mod, result>>

\* The loop ends at (eof): mod.str_lits = std::move(str_lits); return mod.
ParseFinish ==
    /\ pc = "module"
    /\ eof(parser)
    /\ mod' = [mod EXCEPT !.str_lits = parser.str_lits]
    /\ pc' = "some"
    /\ UNCHANGED <<lexer, tk_res, names, tokens, parser, result>>

\* parse(): the optional module becomes the variant's BytecodeModule.
ReturnModule ==
    /\ pc = "some"
    /\ result' = [kind |-> "module", mod |-> mod]
    /\ pc' = "returned"
    /\ UNCHANGED <<lexer, tk_res, names, tokens, parser, mod>>

\* parse(): on std::nullopt the variant holds *parser.consume_error().
\* consume_error moves the SyntaxError out of `error`, which stays engaged;
\* the parser is destroyed on return.
ReturnError ==
    /\ pc = "nullopt"
    /\ result' = [kind |-> "error", error |-> parser.error]
    /\ pc' = "returned"
    /\ UNCHANGED <<lexer, tk_res, names, tokens, parser, mod>>

\* The parser is in the loop of parse_block.
InBlock == pc = "function" /\ top(parser).k = "block"

\* parse_block breaks without consuming: an If / ElseIf block before Else,
\* ElseIf or End.
AtBranchEnd ==
    top(parser).if_block /\ peek(parser).type \in {"Else", "ElseIf", "End"}

\* parse_block reaches parse_statement.
AtStatement ==
    InBlock /\ ~eof(parser) /\ ~AtBranchEnd /\ peek(parser).type # "End"

\* parse_block at (eof): "unexpected end of file".
BlockEof ==
    /\ InBlock
    /\ eof(parser)
    /\ Fail(emplace_error(parser, "unexpected end of file", peek(parser).loc))
    /\ UNCHANGED <<lexer, tk_res, names, tokens>>

\* mod.functions[name] = std::move(*func)
add_function(m, func) ==
    [m EXCEPT !.functions =
        [n \in (DOMAIN @) \cup {func.name} |-> IF n = func.name THEN func ELSE @[n]]]

\* The End of the function's block: parse_block and parse_function return,
\* Parser::parse stores the function.
FunctionEnd ==
    /\ InBlock
    /\ Len(parser.stack) = 1
    /\ ~eof(parser) /\ ~AtBranchEnd
    /\ peek(parser).type = "End"
    /\ parser' = leave_block(consume(parser))
    /\ mod' = add_function(mod, parser.func)
    /\ pc' = "module"
    /\ UNCHANGED <<lexer, tk_res, names, tokens, result>>

\* The End of an Else block: parse_block returns true to parse_if_else,
\* which patches end_jumps and returns true.
ElseBlockEnd ==
    /\ InBlock
    /\ Len(parser.stack) > 1
    /\ ~eof(parser) /\ ~AtBranchEnd
    /\ peek(parser).type = "End"
    /\ Bind(leave_block(consume(parser)), LAMBDA p :
            Continue(pop(patch(p, top(p).end_jumps, size(p)))))
    /\ UNCHANGED <<lexer, tk_res, names, tokens>>

\* A variant of the JMP of parse_if_else that is not recorded in end_jumps.
branch_jump_unrecorded(p) ==
    IF peek(p).type \in {"ElseIf", "Else"}
    THEN emit_into(p, <<Instr0("JMP")>>)
    ELSE p

\* A variant of the JMP of parse_if_else that is emitted after every branch.
branch_jump_always(p) ==
    Bind(emit_into(p, <<Instr0("JMP")>>), LAMBDA q :
        set_top(q, [top(q) EXCEPT !.end_jumps = Append(@, size(q) - 1)]))

\* parse_if_else after parse_block(func, true) returned true: the JMP when
\* an ElseIf or Else follows, recorded in end_jumps.
branch_jump(p) ==
    IF peek(p).type \in {"ElseIf", "Else"}
    THEN Bind(emit_into(p, <<Instr0("JMP")>>), LAMBDA q :
            set_top(q, [top(q) EXCEPT !.end_jumps = Append(@, size(q) - 1)]))
    ELSE p

\* The block of an If / ElseIf ends: parse_block returns true to
\* parse_if_else, which emits the JMP and patches else_jumps.
BranchEnd ==
    /\ InBlock
    /\ ~eof(parser)
    /\ AtBranchEnd
    /\ Bind(branch_jump(leave_block(parser)), LAMBDA p :
            Continue(set_top(patch(p, top(p).else_jumps, size(p)),
                             [top(p) EXCEPT !.phase = "after"])))
    /\ UNCHANGED <<lexer, tk_res, names, tokens>>

\* case TK("Declare"): parse_declare, expect(TK("Declare")).
StatementDeclare ==
    /\ AtStatement
    /\ peek(parser).type = "Declare"
    /\ Bind(expect(parser, "Declare"), LAMBDA e :
            Proceed(e.p, ~has_error(e.p), push(e.p, DeclareFrame)))
    /\ UNCHANGED <<lexer, tk_res, names, tokens>>

\* One declared item; parse_declare returns true after the ';'.
DeclareItem ==
    /\ pc = "function"
    /\ top(parser).k = "declare"
    /\ Bind(parse_declare_item(parser, depth(parser)), LAMBDA i :
            Proceed(i.p, i.r # "return false",
                    IF i.r = "break" THEN pop(i.p) ELSE i.p))
    /\ UNCHANGED <<lexer, tk_res, names, tokens>>

\* case TK("Return")
StatementReturn ==
    /\ AtStatement
    /\ peek(parser).type = "Return"
    /\ Bind(parse_return(parser, depth(parser)), LAMBDA s : Proceed(s.p, s.r, s.p))
    /\ UNCHANGED <<lexer, tk_res, names, tokens>>

\* default: parse_assign
StatementAssign ==
    /\ AtStatement
    /\ peek(parser).type \notin {"Declare", "If", "Return"}
    /\ Bind(parse_assign(parser, depth(parser)), LAMBDA s : Proceed(s.p, s.r, s.p))
    /\ UNCHANGED <<lexer, tk_res, names, tokens>>

\* case TK("If"): parse_if_else, expect(TK("If")), then parse_if_cond with
\* empty jump lists.
StatementIf ==
    /\ AtStatement
    /\ peek(parser).type = "If"
    /\ Bind(expect(parser, "If"), LAMBDA e :
            Proceed(e.p, ~has_error(e.p),
                    push(e.p, IfFrame("cond", <<>>, <<>>, <<>>))))
    /\ UNCHANGED <<lexer, tk_res, names, tokens>>

\* One sub-expression of a condition chain: the loop of parse_if_cond goes
\* on, or parse_if_cond returns to parse_if_else, which expects Then,
\* patches the then-jumps to the current size and enters the branch's block.
IfCond ==
    /\ pc = "function"
    /\ top(parser).k = "if"
    /\ top(parser).phase = "cond"
    /\ Bind(parse_if_cond_round(parser, top(parser).then_jumps,
                                top(parser).else_jumps, depth(parser)),
            LAMBDA c :
            IF ~c.r.ok
            THEN Proceed(c.p, FALSE, c.p)
            ELSE IF ~c.r.last
            THEN Continue(set_top(c.p, IfFrame("cond", c.r.then_jmps,
                              c.r.else_jmps, top(parser).end_jumps)))
            ELSE Bind(expect(c.p, "Then"), LAMBDA e :
                    Proceed(e.p, ~has_error(e.p),
                        enter_block(
                            set_top(patch(e.p, c.r.then_jmps, size(e.p)),
                                    IfFrame("branch", c.r.then_jmps,
                                            c.r.else_jmps, top(parser).end_jumps)),
                            TRUE))))
    /\ UNCHANGED <<lexer, tk_res, names, tokens>>

\* while (match(TK("ElseIf"))): the next branch, with fresh jump lists.
IfElseIf ==
    /\ pc = "function"
    /\ top(parser).k = "if"
    /\ top(parser).phase = "after"
    /\ peek(parser).type = "ElseIf"
    /\ Continue(set_top(consume(parser),
                        IfFrame("cond", <<>>, <<>>, top(parser).end_jumps)))
    /\ UNCHANGED <<lexer, tk_res, names, tokens>>

\* if (match(TK("Else"))): the Else block, which consumes the End itself.
IfElse ==
    /\ pc = "function"
    /\ top(parser).k = "if"
    /\ top(parser).phase = "after"
    /\ peek(parser).type = "Else"
    /\ Continue(enter_block(set_top(consume(parser),
                    IfFrame("else", top(parser).then_jumps,
                            top(parser).else_jumps, top(parser).end_jumps)),
                FALSE))
    /\ UNCHANGED <<lexer, tk_res, names, tokens>>

\* No Else: expect(TK("End")), patch end_jumps, return true.
IfEnd ==
    /\ pc = "function"
    /\ top(parser).k = "if"
    /\ top(parser).phase = "after"
    /\ peek(parser).type \notin {"ElseIf", "Else"}
    /\ Bind(expect(parser, "End"), LAMBDA e :
            Proceed(e.p, ~has_error(e.p),
                    pop(patch(e.p, top(e.p).end_jumps, size(e.p)))))
    /\ UNCHANGED <<lexer, tk_res, names, tokens>>

(***************************************************************************)
(* Inputs of parse(): TokenizeResults as tokenize builds them.  A program  *)
(* is written as its lexemes; the token of the i-th lexeme is located at   *)
(* line 1, column i.                                                       *)
(***************************************************************************)
\* The identifiers of the inputs, interned in this order: ids 0..5.
InputNames == <<"f", "g", "a", "b", "c", "x">>

IntegerLexemes == {"1", "2", "3", "10"}
IntegerValue(w) ==
    CASE w = "1" -> uint64_t(1) [] w = "2" -> uint64_t(2)
      [] w = "3" -> uint64_t(3) [] w = "10" -> uint64_t(10)

NameId(w) == (CHOOSE i \in 1..Len(InputNames) : InputNames[i] = w) - 1

\* The table after tokenize interned the names ws in this order.
RECURSIVE Interned(_, _)
Interned(nt, ws) ==
    IF ws = <<>> THEN nt ELSE Interned(insert_name(nt, Head(ws)), Tail(ws))

TokenOf(w, i) ==
    IF \E k \in 1..Len(InputNames) : InputNames[k] = w
    THEN Token_from_identifier(SourceLocation(1, i), NameId(w))
    ELSE IF w \in IntegerLexemes
    THEN Token_from_integer(SourceLocation(1, i), IntegerValue(w))
    ELSE Token(w, SourceLocation(1, i))

\* The token vector of an error-free tokenize: the lexemes' tokens, then (eof).
Lex(ws) ==
    [i \in 1..(Len(ws) + 1) |->
        IF i <= Len(ws) THEN TokenOf(ws[i], i)
        ELSE Token("(eof)", SourceLocation(1, i))]

TokenizeResult(ws) == [tokens |-> Lex(ws), str_literals |-> <<>>, error |-> nullopt]

(***************************************************************************)
(* The programs parse() is run on.                                         *)
(***************************************************************************)
\* Every token the Pratt loop takes as a binary operator ("(" is the call).
BinaryOperators ==
    {"||", "&&", "|", "^", "&", "==", "!=", "<", ">", "<=", ">=", "<<", ">>",
     "+", "-", "*", "/", "//", "%", "**", "[", "."}

UnaryOperators == {"-", "!", "~"}

Operands == {"a", "x", "1"}

\* Function f(a) Declare x; Return <body> ; End  (a is local 0, x is local 1)
InFunction(body) ==
    <<"Function", "f", "(", "a", ")", "Declare", "x", ";", "Return">>
    \o body \o <<";", "End">>

\* a op1 b op2 c
BinaryPrograms ==
    {InFunction(<<"a", op1, "b", op2, "c">>) : op1, op2 \in BinaryOperators}

\* u e,  u1 u2 e,  a + u e  and  e alone
UnaryPrograms ==
    {InFunction(<<u, e>>) : u \in UnaryOperators, e \in Operands}
    \cup {InFunction(<<u1, u2, e>>) : u1, u2 \in UnaryOperators, e \in Operands}
    \cup {InFunction(<<"a", "+", u, e>>) : u \in UnaryOperators, e \in Operands}
    \cup {InFunction(<<e>>) : e \in Operands}

\* Function f(a) If a Then Declare v = 1; End Return v + a; End
ScopeProgram(v) ==
    <<"Function", "f", "(", "a", ")",
          "If", "a", "Then", "Declare", v, "=", "1", ";", "End",
          "Return", v, "+", "a", ";", "End">>

ScopePrograms == {ScopeProgram(v) : v \in {"x", "b", "c"}}

\* Function f() Return <body> ; End
ReturnProgram(body) ==
    <<"Function", "f", "(", ")", "Return">> \o body \o <<";", "End">>

\* Function f() Declare x; x += 2; End
DeclareAssignProgram ==
    <<"Function", "f", "(", ")", "Declare", "x", ";", "x", "+=", "2", ";", "End">>

\* Function f(a, b,) End  and  Function f(a, b) End
TrailingCommaProgram == <<"Function", "f", "(", "a", ",", "b", ",", ")", "End">>
NoTrailingCommaProgram == <<"Function", "f", "(", "a", ",", "b", ")", "End">>

\* Function f(a) If a Then Declare x; End Declare b; Return b; End
DeclareAfterBlockProgram ==
    <<"Function", "f", "(", "a", ")",
          "If", "a", "Then", "Declare", "x", ";", "End",
          "Declare", "b", ";", "Return", "b", ";", "End">>

BasePrograms ==
    { <<"Function", "f", "(", "a", ",", "b", ")",
            "Return", "a", "+", "b", "*", "1", ";", "End">>,
      <<"Function", "f", "(", ")",
            "Declare", "x", "=", "10", ",", "c", ";",
            "x", "+=", "2", ";", "Return", "x", ";", "End">>,
      DeclareAssignProgram,
      ReturnProgram(<<"1", "+", "2", "*", "3">>),
      ReturnProgram(<<"1", "*", "2", "+", "3">>),
      <<"Function", "f", "(", "a", ")",
            "If", "a", "&&", "b", "||", "c", "Then", "Return", "1", ";",
            "ElseIf", "a", "Then", "b", "=", "2", ";",
            "Else", "Declare", "x", ";", "End",
            "Return", "x", ";", "End">>,
      <<"Function", "f", "(", "a", ")",
            "If", "a", "Then", "Declare", "x", "=", "1", ";", "End",
            "x", "=", "a", ";", "End">>,
      <<"Function", "f", "(", ")",
            "Return", "g", "(", "a", ",", "(", "b", ")", ",", ")", ";", "End",
        "Function", "g", "(", "x", ")", "g", "(", ")", ";", "End">>,
      TrailingCommaProgram,
      NoTrailingCommaProgram,
      DeclareAfterBlockProgram,
      <<"Function", "f", "(", "a", ")", "If", "a", "&&", "b", "||", "c",
            "Then", "Return", "1", ";", "End", "End">>,
      <<>> }

\* The tokens a base program is varied with.
Alphabet ==
    {"Function", "Declare", "Import", "If", "Then", "ElseIf", "Else", "End",
     "Return", "f", "a", "x", "1", "TRUE", "(", ")", ",", ";", "=", "+=",
     "+", "*", "&&", "||", "-", "!", "[", "]"}

Substitute(ws, i, w) == [k \in 1..Len(ws) |-> IF k = i THEN w ELSE ws[k]]
Delete(ws, i) == SubSeq(ws, 1, i - 1) \o SubSeq(ws, i + 1, Len(ws))

\* The base programs, and each with one token replaced or removed.
VariedPrograms ==
    BasePrograms
    \cup UNION {{Substitute(ws, i, w) : i \in 1..Len(ws), w \in Alphabet} :
                    ws \in BasePrograms}
    \cup UNION {{Delete(ws, i) : i \in 1..Len(ws)} : ws \in BasePrograms}

\* The argument expressions of the calls, and the callees: f is a global,
\* a is a local.
ArgExprs == {<<"a">>, <<"b", "+", "1">>, <<"g", "(", "x", ")">>}
Callees == {"f", "a"}

\* Argument lists of up to three expressions.
ArgLists == UNION {[1..n -> ArgExprs] : n \in 0..3}

\* a1 , a2 , ... , an  with or without a comma after an
RECURSIVE ArgTokens(_, _)
ArgTokens(args, trailing) ==
    IF args = <<>> THEN <<>>
    ELSE IF Len(args) = 1
    THEN Head(args) \o (IF trailing THEN <<",">> ELSE <<>>)
    ELSE Head(args) \o <<",">> \o ArgTokens(Tail(args), trailing)

\* Function f(a) Declare x; Return callee ( a1, ..., an ) ; End
CallProgram(callee, args, trailing) ==
    InFunction(<<callee, "(">> \o ArgTokens(args, trailing) \o <<")">>)

CallPrograms ==
    {CallProgram(callee, args, trailing) :
        callee \in Callees, args \in ArgLists, trailing \in BOOLEAN}

\* Function f(a, b) Declare x = 1; Return x; End
\* Function g(<params>) <body> End
AfterFunction(params, body) ==
    <<"Function", "f", "(", "a", ",", "b", ")",
          "Declare", "x", "=", "1", ";", "Return", "x", ";", "End",
      "Function", "g", "(">> \o params \o <<")">> \o body \o <<"End">>

\* The names f binds.
BoundInF == {"a", "b", "x"}

\* g uses v without binding it; g declares v; g has v as its parameter.
UsesProgram(v) == AfterFunction(<<>>, <<"Return", v, ";">>)
DeclaresProgram(v) == AfterFunction(<<"c">>, <<"Declare", v, "=", "c", ";", "Return", v, ";">>)
ParameterProgram(v) == AfterFunction(<<v>>, <<"Return", v, "+", "c", ";">>)

TwoFunctionPrograms ==
    {UsesProgram(v) : v \in BoundInF}
    \cup {DeclaresProgram(v) : v \in BoundInF}
    \cup {ParameterProgram(v) : v \in BoundInF}

\* The sub-expressions and the joiners of the condition chains.
CondExprs == {<<"a">>, <<"b", "+", "1">>}
Joiners == {"||", "&&"}

\* Chains e1 j1 e2 ... en of one to three sub-expressions: [es, js].
CondChains ==
    UNION {{[es |-> es, js |-> js] : es \in [1..n -> CondExprs],
                                     js \in [1..(n - 1) -> Joiners]} : n \in 1..3}

\* e1 j1 e2 j2 ... en
RECURSIVE CondTokens(_, _)
CondTokens(es, js) ==
    IF Len(es) = 1 THEN Head(es)
    ELSE Head(es) \o <<Head(js)>> \o CondTokens(Tail(es), Tail(js))

\* What follows the Then block: the End, an Else block, an ElseIf branch.
CondTails ==
    {<<"End">>,
     <<"Else", "Return", "2", ";", "End">>,
     <<"ElseIf", "x", "Then", "Return", "3", ";", "End">>}

\* Function f(a) Declare x; If <chain> Then Return 1; <tail> End
CondProgram(c, tail) ==
    <<"Function", "f", "(", "a", ")", "Declare", "x", ";", "If">>
    \o CondTokens(c.es, c.js) \o <<"Then", "Return", "1", ";">> \o tail \o <<"End">>

CondPrograms == {CondProgram(c, tail) : c \in CondChains, tail \in CondTails}

\* The blocks of the If chains: a Return, an If without Else, an If with
\* Else.
BlockKinds == {"ret", "if", "ifelse"}

BlockTokens(kind) ==
    CASE kind = "ret" -> <<"Return", "1", ";">>
      [] kind = "if" -> <<"If", "b", "Then", "Return", "1", ";", "End">>
      [] kind = "ifelse" -> <<"If", "b", "Then", "Return", "1", ";",
                              "Else", "Return", "2", ";", "End">>

\* Chains of one to three branches (the If, then ElseIfs), with an Else
\* block or none: [bs, els].
IfChains ==
    UNION {{[bs |-> bs, els |-> els] : bs \in [1..n -> BlockKinds],
                                       els \in BlockKinds \cup {"none"}} : n \in 1..3}

\* a Then <block> { ElseIf a Then <block> }
RECURSIVE BranchTokens(_)
BranchTokens(bs) ==
    <<"a", "Then">> \o BlockTokens(Head(bs))
    \o (IF Len(bs) = 1 THEN <<>> ELSE <<"ElseIf">> \o BranchTokens(Tail(bs)))

\* If <branches> End   or   If <branches> Else <block> End
IfChainTokens(c) ==
    <<"If">> \o BranchTokens(c.bs)
    \o (IF c.els = "none" THEN <<>> ELSE <<"Else">> \o BlockTokens(c.els))
    \o <<"End">>

\* Function f(a) <chain> Return c; End
IfChainProgram(c) ==
    <<"Function", "f", "(", "a", ")">> \o IfChainTokens(c)
    \o <<"Return", "c", ";", "End">>

\* The chain without its End, and with a second End.
IfChainMissingEnd(c) ==
    <<"Function", "f", "(", "a", ")">>
    \o SubSeq(IfChainTokens(c), 1, Len(IfChainTokens(c)) - 1)
    \o <<"Return", "c", ";", "End">>
IfChainExtraEnd(c) ==
    <<"Function", "f", "(", "a", ")">> \o IfChainTokens(c)
    \o <<"End", "Return", "c", ";", "End">>

\* The chains whose End is left out or doubled.
SmallIfChains == {c \in IfChains : Len(c.bs) <= 2 /\ c.els \in {"none", "ret"}}

IfChainPrograms ==
    {IfChainProgram(c) : c \in IfChains}
    \cup {IfChainMissingEnd(c) : c \in SmallIfChains}
    \cup {IfChainExtraEnd(c) : c \in SmallIfChains}

\* The initializers of the Declare items: none, a literal, the parameter,
\* the declared name itself, a binary expression.
Initializers == {"none", "10", "a", "self", "g+1"}

\* id  or  id = expr
ItemTokens(name, init) ==
    CASE init = "none" -> <<name>>
      [] init = "10"   -> <<name, "=", "10">>
      [] init = "a"    -> <<name, "=", "a">>
      [] init = "self" -> <<name, "=", name>>
      [] init = "g+1"  -> <<name, "=", "g", "+", "1">>

\* Function f(a) Declare x <init1> [, b <init2>] ; Return c; End
DeclareProgram(inits) ==
    <<"Function", "f", "(", "a", ")", "Declare">>
    \o ItemTokens("x", inits[1])
    \o (IF Len(inits) = 2 THEN <<",">> \o ItemTokens("b", inits[2]) ELSE <<>>)
    \o <<";", "Return", "c", ";", "End">>

InitializerLists == UNION {[1..n -> Initializers] : n \in 1..2}

DeclarePrograms ==
    {DeclareProgram(inits) : inits \in InitializerLists}
    \cup {<<"Function", "f", "(", ")", "Declare", "x", "=", "10", ";",
            "Return", "x", ";", "End">>}

\* Programs that bind a name a second time in one function: the tokens, the
\* index of the repeated name, the message of its rejection and the number
\* of slots allocated before it.
Rebinds ==
    { [tokens  |-> <<"Function", "f", "(", "a", ",", "a", ")", "End">>,
       at |-> 6, message |-> "duplicate local name a", slots |-> 1],
      [tokens  |-> <<"Function", "f", "(", "a", ",", "b", ",", "a", ")", "End">>,
       at |-> 8, message |-> "duplicate local name a", slots |-> 2],
      [tokens  |-> <<"Function", "f", "(", "a", ")", "Declare", "a", ";", "End">>,
       at |-> 7, message |-> "variable a already declared", slots |-> 1],
      [tokens  |-> <<"Function", "f", "(", ")", "Declare", "x", ",", "x", ";", "End">>,
       at |-> 8, message |-> "variable x already declared", slots |-> 1],
      [tokens  |-> <<"Function", "f", "(", ")", "Declare", "x", ";",
                     "Declare", "b", ",", "x", "=", "1", ";", "End">>,
       at |-> 11, message |-> "variable x already declared", slots |-> 2],
      [tokens  |-> <<"Function", "f", "(", "a", ")", "Declare", "x", ";",
                     "If", "a", "Then", "Declare", "x", ";", "End", "End">>,
       at |-> 13, message |-> "variable x already declared", slots |-> 2],
      [tokens  |-> <<"Function", "f", "(", "a", ")",
                     "If", "a", "Then", "Declare", "x", ";", "End",
                     "Declare", "x", ";", "End">>,
       at |-> 14, message |-> "variable x already declared", slots |-> 2],
      [tokens  |-> <<"Function", "f", "(", "a", ")",
                     "If", "a", "Then", "Declare", "x", ";",
                     "Else", "Declare", "x", ";", "End", "End">>,
       at |-> 14, message |-> "variable x already declared", slots |-> 2] }

RebindPrograms == {r.tokens : r \in Rebinds}

\* The assignment operators, the names assigned to (a parameter, a declared
\* local, a global), the expressions assigned, and the left sides that are
\* no lvalue (a literal, a call, a binary and a unary expression).
AssignOperators ==
    {"=", "+=", "-=", "*=", "/=", "//=", "%=", "**=", "<<=", ">>=", "&=", "|=", "^="}

AssignTargets == {<<"a">>, <<"x">>, <<"g">>}

AssignValues == {<<"1">>, <<"a", "+", "b">>, <<"g", "(", "x", ")">>}

Rvalues == {<<"1">>, <<"g", "(", ")">>, <<"a", "+", "b">>, <<"a", ".", "b">>, <<"-", "a">>}

\* Function f(a) Declare x; a; <statement> End
StatementProgram(statement) ==
    <<"Function", "f", "(", "a", ")", "Declare", "x", ";", "a", ";">>
    \o statement \o <<"End">>

AssignProgram(lhs, op, rhs) == StatementProgram(lhs \o <<op>> \o rhs \o <<";">>)

ExprStatementProgram(e) == StatementProgram(e \o <<";">>)

AssignPrograms ==
    {AssignProgram(lhs, op, rhs) :
        lhs \in AssignTargets, op \in AssignOperators, rhs \in AssignValues}
    \cup {AssignProgram(lhs, op, <<"1">>) : lhs \in Rvalues, op \in {"=", "+=", "**="}}
    \cup {ExprStatementProgram(e) : e \in AssignValues \cup AssignTargets}

\* Programs cut off after any number of tokens.
WholePrograms ==
    { <<"Function", "f", "(", ")",
            "Declare", "x", "=", "10", ",", "c", ";",
            "x", "+=", "2", ";", "Return", "x", ";", "End">>,
      <<"Function", "f", "(", "a", ",", "b", ")",
            "If", "a", "||", "g", "(", "b", ",", "1", ")", "Then",
                "Return", "a", ";",
            "ElseIf", "b", "Then", "a", "=", "b", ";",
            "Else", "Return", ";", "End", "End">> }

TruncatedPrograms ==
    UNION {{SubSeq(ws, 1, n) : n \in 0..Len(ws)} : ws \in WholePrograms}

\* Conditions that are no chain e1 j1 e2 ... en: a joiner is missing
\* between two sub-expressions, or the chain ends in or starts with one.
MalformedConds ==
    {<<"a", "b">>, <<"a", "||">>, <<"a", "&&">>, <<"||", "a">>, <<"a", "||", "||", "b">>,
     <<"a", "||", "b", "x">>, <<"a", "&&", "b", "||">>, <<"a", "1", "||", "b">>}

\* Function f(a) Declare x; If <cond> Then Return 1; End End
MalformedCondProgram(cond) ==
    <<"Function", "f", "(", "a", ")", "Declare", "x", ";", "If">>
    \o cond \o <<"Then", "Return", "1", ";", "End", "End">>

\* Function f(a) Declare x; If a Then Return 1; ElseIf <cond> Then Return 2; End End
MalformedElseIfProgram(cond) ==
    <<"Function", "f", "(", "a", ")", "Declare", "x", ";",
          "If", "a", "Then", "Return", "1", ";", "ElseIf">>
    \o cond \o <<"Then", "Return", "2", ";", "End", "End">>

MalformedCondPrograms ==
    {MalformedCondProgram(cond) : cond \in MalformedConds}
    \cup {MalformedElseIfProgram(cond) : cond \in MalformedConds}

Programs ==
    BinaryPrograms \cup UnaryPrograms \cup ScopePrograms \cup VariedPrograms
    \cup MalformedCondPrograms
    \cup TruncatedPrograms
    \cup AssignPrograms
    \cup RebindPrograms
    \cup DeclarePrograms
    \cup CallPrograms \cup TwoFunctionPrograms \cup CondPrograms
    \cup IfChainPrograms

\* What tokenize hands over when it stopped on a lexical error.
FailedTokenizeResults ==
    {TokenizeResult_from_error(SourceLocation(1, c), msg) :
        c \in 1..2,
        msg \in {"Unexpected character", "Expected '::'", "Integer literal overflow"}}

\* TokenizeResults a caller of parse() can build: an error together with
\* tokens, with or without the closing (eof).
ErrorResultsWithTokens ==
    {[tokens |-> toks, str_literals |-> <<>>,
      error |-> SyntaxError("Unexpected character", SourceLocation(1, 3))] :
        toks \in {Lex(ReturnProgram(<<"1", "+", "2", "*", "3">>)),
                  Lex(TrailingCommaProgram),
                  SubSeq(Lex(DeclareAssignProgram), 1, 6),
                  Lex(<<>>)}}

Init ==
    /\ lexer = [pc |-> "returned"]
    /\ tk_res \in {TokenizeResult(ws) : ws \in Programs}
                    \cup FailedTokenizeResults \cup ErrorResultsWithTokens
    /\ names = Interned(NameTable, InputNames)
    /\ tokens = <<>>
    /\ parser = [pos |-> 0, stack |-> <<>>]
    /\ mod = BytecodeModule
    /\ pc = "start"
    /\ result = [kind |-> "none"]

Next ==
    \/ Construct
    \/ ParseHasError
    \/ ParseBegin
    \/ ParseFunctionItem
    \/ ParseDeclareItem
    \/ ParseImportItem
    \/ ParseOtherItem
    \/ ParseFinish
    \/ ReturnModule
    \/ ReturnError
    \/ BlockEof
    \/ FunctionEnd
    \/ ElseBlockEnd
    \/ BranchEnd
    \/ StatementDeclare
    \/ DeclareItem
    \/ StatementReturn
    \/ StatementAssign
    \/ StatementIf
    \/ IfCond
    \/ IfElseIf
    \/ IfElse
    \/ IfEnd

Spec == Init /\ [][Next]_vars

(***************************************************************************)
(* The sources tokenize() is run on.                                       *)
(***************************************************************************)
\* The characters of a run of decimal digits.
DigitRun(ds) == [i \in 1..Len(ds) |-> DigitChars[ds[i] + 1]]

\* Digit runs: small values, leading zeros, the values around UINT64_MAX
\* (UINT64_MAX / 10 followed by each digit), and longer runs.
DigitRuns ==
    {<<0>>, <<7>>, <<4, 2>>, <<0, 0, 7>>}
    \cup {Append(u64_div10(UINT64_MAX), d) : d \in 0..9}
    \cup {<<0>> \o UINT64_MODULUS,
          Append(UINT64_MAX, 0),
          <<1, 8, 4, 4, 6, 7, 4, 4, 0, 7, 3, 7, 0, 9, 5, 5, 1, 6, 2, 0>>,
          <<9, 9, 9, 9, 9, 9, 9, 9, 9, 9, 9, 9, 9, 9, 9, 9, 9, 9, 9, 9>>}

\* What precedes and what follows a digit run in a source.
Before == {<<>>, <<"a", " ">>, <<"x", "=">>, <<"\n", "(">>}
After == {<<>>, <<"\n">>, <<";">>, <<" ", "a">>}

IntegerSources ==
    {b \o DigitRun(ds) \o a : b \in Before, ds \in DigitRuns, a \in After}

\* Lexemes, and character runs that are no lexeme.
Words ==
    {<<"a">>, <<"I", "f">>, <<"I", "f", "x">>, <<"_", "1">>, <<"E", "n", "d">>,
     <<"1", "2">>, <<"+">>, <<"+", "=">>, <<"*">>, <<"*", "*", "=">>,
     <<"<", "<">>, <<"&", "&">>, <<"|">>, <<"=">>, <<";">>, <<"(">>,
     <<":", ":">>, <<":">>, <<"$">>,
     <<"\"", "a", "\\", "n", "\"">>, <<"\"", "a">>}

Separators == {<<>>, <<" ">>, <<"\n">>}

\* Up to three words, separated or not.
WordSources ==
    {<<>>}
    \cup {w1 \o s1 \o w2 \o s2 : w1, w2 \in Words, s1, s2 \in Separators}
    \cup {w1 \o <<" ">> \o w2 \o <<" ">> \o w3 :
            w1 \in {<<"a">>, <<"1", "2">>, <<";">>},
            w2 \in Words,
            w3 \in {<<":">>, <<"$">>, <<"x">>}}

\* The empty source and sources of whitespace only.
BlankSources == {<<>>, <<" ">>, <<"\n", " ">>, <<"\t", "\n", " ">>}

\* The operators of more than one character, by token type.
MunchOperators ==
    { [type |-> "+=",  chars |-> <<"+", "=">>],
      [type |-> "**",  chars |-> <<"*", "*">>],
      [type |-> "**=", chars |-> <<"*", "*", "=">>],
      [type |-> "//",  chars |-> <<"/", "/">>],
      [type |-> "//=", chars |-> <<"/", "/", "=">>],
      [type |-> "<<",  chars |-> <<"<", "<">>],
      [type |-> "<<=", chars |-> <<"<", "<", "=">>],
      [type |-> ">>",  chars |-> <<">", ">">>],
      [type |-> ">>=", chars |-> <<">", ">", "=">>],
      [type |-> "<=",  chars |-> <<"<", "=">>],
      [type |-> ">=",  chars |-> <<">", "=">>],
      [type |-> "==",  chars |-> <<"=", "=">>],
      [type |-> "!=",  chars |-> <<"!", "=">>],
      [type |-> "&&",  chars |-> <<"&", "&">>],
      [type |-> "||",  chars |-> <<"|", "|">>],
      [type |-> "::",  chars |-> <<":", ":">>] }

\* What precedes and what follows the operator in a source.
MunchBefore == {<<>>, <<"a">>}
MunchAfter == {<<>>, <<"b">>, <<" ">>, <<"\n">>}

MunchSources ==
    {pre \o o.chars \o post :
        pre \in MunchBefore, o \in MunchOperators, post \in MunchAfter}

\* Runs of identifier characters, with their characters: the keywords, and
\* runs that differ from a keyword in case or length.
KeywordRuns ==
    { [name |-> "Break", chars |-> <<"B", "r", "e", "a", "k">>],
      [name |-> "Class", chars |-> <<"C", "l", "a", "s", "s">>],
      [name |-> "Continue", chars |-> <<"C", "o", "n", "t", "i", "n", "u", "e">>],
      [name |-> "Catch", chars |-> <<"C", "a", "t", "c", "h">>],
      [name |-> "Declare", chars |-> <<"D", "e", "c", "l", "a", "r", "e">>],
      [name |-> "Do", chars |-> <<"D", "o">>],
      [name |-> "End", chars |-> <<"E", "n", "d">>],
      [name |-> "Else", chars |-> <<"E", "l", "s", "e">>],
      [name |-> "ElseIf", chars |-> <<"E", "l", "s", "e", "I", "f">>],
      [name |-> "Function", chars |-> <<"F", "u", "n", "c", "t", "i", "o", "n">>],
      [name |-> "For", chars |-> <<"F", "o", "r">>],
      [name |-> "FALSE", chars |-> <<"F", "A", "L", "S", "E">>],
      [name |-> "If", chars |-> <<"I", "f">>],
      [name |-> "Import", chars |-> <<"I", "m", "p", "o", "r", "t">>],
      [name |-> "Lambda", chars |-> <<"L", "a", "m", "b", "d", "a">>],
      [name |-> "Module", chars |-> <<"M", "o", "d", "u", "l", "e">>],
      [name |-> "New", chars |-> <<"N", "e", "w">>],
      [name |-> "NULL", chars |-> <<"N", "U", "L", "L">>],
      [name |-> "Return", chars |-> <<"R", "e", "t", "u", "r", "n">>],
      [name |-> "While", chars |-> <<"W", "h", "i", "l", "e">>],
      [name |-> "Then", chars |-> <<"T", "h", "e", "n">>],
      [name |-> "Throw", chars |-> <<"T", "h", "r", "o", "w">>],
      [name |-> "Try", chars |-> <<"T", "r", "y">>],
      [name |-> "Typeof", chars |-> <<"T", "y", "p", "e", "o", "f">>],
      [name |-> "TRUE", chars |-> <<"T", "R", "U", "E">>],
      [name |-> "_Yield", chars |-> <<"_", "Y", "i", "e", "l", "d">>] }

OtherRuns ==
    { [name |-> "Iffy", chars |-> <<"I", "f", "f", "y">>],
      [name |-> "End2", chars |-> <<"E", "n", "d", "2">>],
      [name |-> "if", chars |-> <<"i", "f">>],
      [name |-> "IF", chars |-> <<"I", "F">>],
      [name |-> "True", chars |-> <<"T", "r", "u", "e">>],
      [name |-> "true", chars |-> <<"t", "r", "u", "e">>],
      [name |-> "Nul", chars |-> <<"N", "u", "l">>],
      [name |-> "Els", chars |-> <<"E", "l", "s">>],
      [name |-> "ElseIfs", chars |-> <<"E", "l", "s", "e", "I", "f", "s">>],
      [name |-> "_yield", chars |-> <<"_", "y", "i", "e", "l", "d">>],
      [name |-> "_", chars |-> <<"_">>],
      [name |-> "x", chars |-> <<"x">>],
      [name |-> "a_1", chars |-> <<"a", "_", "1">>],
      [name |-> "Functio", chars |-> <<"F", "u", "n", "c", "t", "i", "o">>],
      [name |-> "Do_", chars |-> <<"D", "o", "_">>],
      [name |-> "T", chars |-> <<"T">>] }

Runs == KeywordRuns \cup OtherRuns

\* The runs that start the sources of two and three runs.
FirstRuns == {r \in Runs : r.name \in {"x", "Iffy", "End2", "If", "TRUE", "true"}}

\* One to three runs, each followed by a blank.
RunLists ==
    {<<r>> : r \in Runs}
    \cup {<<r1, r2>> : r1 \in FirstRuns, r2 \in Runs}
    \cup {<<r1, r2, r3>> : r1, r2, r3 \in FirstRuns}

RECURSIVE RunSource(_)
RunSource(rs) ==
    IF rs = <<>> THEN <<>> ELSE Head(rs).chars \o <<" ">> \o RunSource(Tail(rs))

\* A run that ends the source.
LastRunSources == {r.chars : r \in Runs}

RunSources == {RunSource(rs) : rs \in RunLists} \cup LastRunSources

Sources ==
    IntegerSources \cup WordSources \cup BlankSources \cup MunchSources
    \cup RunSources

\* What the two bytes behind the source buffer may hold.
Beyond == {<<x, y>> : x, y \in {"=", "7", "$"}}

LexInit ==
    /\ lexer \in {[stream |-> SourceStream(source, beyond),
                    res |-> EmptyTokenizeResult, pc |-> "start"] :
                       source \in Sources, beyond \in Beyond}
    /\ tk_res = EmptyTokenizeResult
    /\ names = NameTable
    /\ tokens = <<>>
    /\ parser = [pos |-> 0, stack |-> <<>>]
    /\ mod = BytecodeModule
    /\ pc = "start"
    /\ result = [kind |-> "none"]

LexNext ==
    \/ TokenizeBegin
    \/ TokenizeOperator
    \/ TokenizePunctuation
    \/ TokenizeColon
    \/ TokenizeString
    \/ TokenizeInteger
    \/ TokenizeIdentifier
    \/ TokenizeUnexpected
    \/ TokenizeEof

SpecLex == LexInit /\ [][LexNext]_vars

(***************************************************************************)
(* A NameTable driven through its interface: any sequence of get_id,       *)
(* get_id_or_insert and get_name calls; result records the last call.      *)
(***************************************************************************)
\* The strings the calls are made with.
NameStrings == {"", "a", "b", "ab", "If"}

NamesInit ==
    /\ lexer = [pc |-> "returned"]
    /\ tk_res = EmptyTokenizeResult
    /\ names = NameTable
    /\ tokens = <<>>
    /\ parser = [pos |-> 0, stack |-> <<>>]
    /\ mod = BytecodeModule
    /\ pc = "names"
    /\ result = [kind |-> "none"]

NameTableGetId ==
    /\ pc = "names"
    /\ \E s \in NameStrings :
          result' = [kind |-> "get_id", name |-> s, id |-> get_id(names, s)]
    /\ UNCHANGED <<lexer, tk_res, names, tokens, parser, mod, pc>>

NameTableGetIdOrInsert ==
    /\ pc = "names"
    /\ \E s \in NameStrings :
          /\ get_id(names, s) # NameTable_INVALID_ID
                \/ NameTable_size(names) < MaxNames
          /\ result' = [kind |-> "get_id_or_insert", name |-> s,
                        id |-> get_id_or_insert(names, s)]
          /\ names' = insert_name(names, s)
    /\ UNCHANGED <<lexer, tk_res, tokens, parser, mod, pc>>

\* get_name asserts id >= 0 && id < names.size().
NameTableGetName ==
    /\ pc = "names"
    /\ \E id \in 0..(NameTable_size(names) - 1) :
          result' = [kind |-> "get_name", name |-> NameTable_get_name(names, id),
                     id |-> id]
    /\ UNCHANGED <<lexer, tk_res, names, tokens, parser, mod, pc>>

NamesNext ==
    \/ NameTableGetId
    \/ NameTableGetIdOrInsert
    \/ NameTableGetName

SpecNames == NamesInit /\ [][NamesNext]_vars

(***************************************************************************)
(* The token type table and TK, the lookup of a token type by its name.    *)
(* Adjacent string literals without a comma between them are one element   *)
(* of the array: "//" "+=", "For" "If" and "Try" "_Yield".                 *)
(***************************************************************************)
TOKEN_TYPE_NAMES ==
    <<"(eof)", "(error)", "(identifier)",
      "(integer)", "(number)", "(string)", "(symbol)",
      "+", "-", "*", "/", "%", "**", "//+=",
      "-=", "*=", "/=", "%=", "**=", "//=",
      "^", "&", "|", "~", "<<", ">>",
      "^=", "&=", "|=", "~=", "<<=", ">>=",
      "==", "!=", "<", ">", "<=", ">=",
      "&&", "||", "!",
      "(", ")", "[", "]", "{", "}",
      ".", ",", ";", "::", "=",
      "Break",
      "Class", "Continue", "Catch",
      "Declare", "Do",
      "End", "Else", "ElseIf",
      "Function", "ForIf",
      "Import",
      "Lambda",
      "Module",
      "New",
      "Return",
      "While",
      "Then", "Throw", "Typeof", "Try_Yield",
      "BuiltinPopcnt", "BuiltinCtz", "BuiltinClz",
      "BuiltinAbs", "BuiltinCeil", "BuiltinFloor", "BuiltinRound",
      "BuiltinSwap",
      "(guard)">>

\* sizeof(TOKEN_TYPE_NAMES) / sizeof(TOKEN_TYPE_NAMES[0])
TOKEN_COUNT == Len(TOKEN_TYPE_NAMES)

\* TK: the index of the first element equal to name; when there is none the
\* function throws std::runtime_error("unknown token type: ...") (the older
\* header returns -1), written -1 here.
TK(name) ==
    IF \E i \in 0..(TOKEN_COUNT - 1) : TOKEN_TYPE_NAMES[i + 1] = name
    THEN CHOOSE i \in 0..(TOKEN_COUNT - 1) :
             /\ TOKEN_TYPE_NAMES[i + 1] = name
             /\ \A j \in 0..(i - 1) : TOKEN_TYPE_NAMES[j + 1] # name
    ELSE -1

\* The names TK is called with in the lexer, the parser and the drivers.
ReferencedNames ==
    {"!", "!=", "%", "%=", "&", "&&", "&=", "(", "(eof)", "(error)", "(guard)",
     "(identifier)", "(integer)", "(number)", "(string)", ")", "*", "**", "**=",
     "*=", "+", "+=", ",", "-", "-=", ".", "/", "//", "//=", "/=", "::", ";",
     "<", "<<", "<<=", "<=", "=", "==", ">", ">=", ">>", ">>=",
     "Break", "Catch", "Class", "Continue", "Declare", "Do", "Else", "ElseIf",
     "End", "FALSE", "For", "Function", "If", "Import", "Lambda", "Module",
     "NULL", "New", "Return", "TRUE", "Then", "Throw", "Try", "Typeof", "While",
     "[", "]", "^", "^=", "_Yield", "{", "|", "|=", "||", "}", "~"}

\* Any sequence of TK calls; result records the last call and tokens the
\* one before it.
TKInit ==
    /\ lexer = [pc |-> "returned"]
    /\ tk_res = EmptyTokenizeResult
    /\ names = NameTable
    /\ tokens = <<>>
    /\ parser = [pos |-> 0, stack |-> <<>>]
    /\ mod = BytecodeModule
    /\ pc = "TK"
    /\ result = [kind |-> "none"]

TKCall ==
    /\ pc = "TK"
    /\ \E name \in ReferencedNames :
          result' = [kind |-> "TK", name |-> name, type |-> TK(name)]
    /\ tokens' = IF result.kind = "TK" THEN <<result>> ELSE <<>>
    /\ UNCHANGED <<lexer, tk_res, names, parser, mod, pc>>

TKNext == TKCall

SpecTK == TKInit /\ [][TKNext]_vars

(***************************************************************************)
(* Properties.                                                             *)
(***************************************************************************)
\* parse() has returned from the program ws.
Parsed(ws) == pc = "returned" /\ tk_res = TokenizeResult(ws)

\* parse() returned a module in which function f has these instructions.
Emits(is) ==
    /\ result.kind = "module"
    /\ NameId("f") \in DOMAIN result.mod.functions
    /\ result.mod.functions[NameId("f")].instructions = is

\* The code of an operand inside InFunction: a is local 0, x is local 1, the
\* other names are global.
Load(e) ==
    CASE e = "a" -> Instr("LDLOCAL", 0)
      [] e = "x" -> Instr("LDLOCAL", 1)
      [] e \in IntegerLexemes -> Instr("LII", IntegerValue(e))
      [] OTHER -> Instr("LDGLOBAL", NameId(e))

\* The opcode of a unary operator.
UnaryInstr(u) == CASE u = "-" -> "NEG" [] u = "!" -> "NOT" [] u = "~" -> "BNOT"

\* C1: for every token sequence ending in (eof), parse terminates and
\* returns either a BytecodeModule or a SyntaxError, also when an operand
\* starts with a unary operator '-', '!' or '~'.
C1_ParseReturnsModuleOrError ==
    pc = "returned" => result.kind \in {"module", "error"}

\* C2: binary operators are left-associative: for op1, op2 of equal
\* precedence (and with an opcode), a op1 b op2 c is emitted as a, b, OP1,
\* c, OP2.
C2_LeftAssociative ==
    pc = "returned" =>
        \A op1, op2 \in BinaryOperators :
            (/\ OP_PRECEDENCE_TABLE(op1) = OP_PRECEDENCE_TABLE(op2)
             /\ OP_TO_INSTR_TABLE(op1) # "INVALID"
             /\ OP_TO_INSTR_TABLE(op2) # "INVALID"
             /\ Parsed(InFunction(<<"a", op1, "b", op2, "c">>)))
            => Emits(<<Load("a"), Load("b"), Instr0(OP_TO_INSTR_TABLE(op1)),
                       Load("c"), Instr0(OP_TO_INSTR_TABLE(op2)),
                       Instr0("RET")>>)

\* C3: a name declared inside a block is no local after the block: its later
\* use in the enclosing block emits LDGLOBAL nameId, while the parameter of
\* the enclosing scope still loads from its slot.
C3_BlockNamesLeaveScope ==
    \A v \in {"x", "b", "c"} :
        Parsed(ScopeProgram(v)) =>
            /\ result.kind = "module"
            /\ \E is \in {result.mod.functions[NameId("f")].instructions} :
                /\ Len(is) >= 4
                /\ SubSeq(is, Len(is) - 3, Len(is)) =
                       <<Instr("LDGLOBAL", NameId(v)), Instr("LDLOCAL", 0),
                         Instr0("ADD"), Instr0("RET")>>

\* C4: integer lexing is exact: a digit run whose value exceeds UINT64_MAX
\* makes tokenize return "Integer literal overflow" at the first digit, and
\* a digit run whose value is at most UINT64_MAX yields an (integer) token
\* carrying exactly that value.  (The run starts the source and is followed
\* by a character of the source.)
C4_IntegerLexingExact ==
    lexer.pc = "returned" =>
        \A ds \in DigitRuns, a \in After \ {<<>>} :
            lexer.stream.source = DigitRun(ds) \o a =>
                IF u64_less(UINT64_MAX, u64_strip(ds))
                THEN tk_res.error =
                         SyntaxError("Integer literal overflow", SourceLocation(1, 1))
                ELSE /\ tk_res.error = nullopt
                     /\ tk_res.tokens[1] =
                            Token_from_integer(SourceLocation(1, 1), u64_strip(ds))

\* C5: when tokenize stops on a lexical error, the TokenizeResult it returns
\* carries the error together with every token emitted before the error, in
\* order, and no trailing (eof).
C5_ErrorResultKeepsTokens ==
    (lexer.pc = "returned" /\ tk_res.error.has_value) =>
        tk_res.tokens = lexer.res.tokens

\* C6: a unary operator is lowered after its operand: u e emits code(e), U,
\* and stacked operators nest right-associatively: u1 u2 e emits code(e),
\* U2, U1.
C6_UnaryLowering ==
    pc = "returned" =>
        \A u1, u2 \in UnaryOperators, e \in Operands :
            /\ Parsed(InFunction(<<u1, e>>)) =>
                   Emits(<<Load(e), Instr0(UnaryInstr(u1)), Instr0("RET")>>)
            /\ Parsed(InFunction(<<u1, u2, e>>)) =>
                   Emits(<<Load(e), Instr0(UnaryInstr(u2)),
                           Instr0(UnaryInstr(u1)), Instr0("RET")>>)

\* C7: the parameter list accepts a trailing comma: Function f(a, b,) End
\* parses with arg_count = 2 and local_count = 2.
C7_TrailingCommaInParameters ==
    Parsed(TrailingCommaProgram) =>
        /\ result.kind = "module"
        /\ result.mod.functions[NameId("f")].arg_count = 2
        /\ result.mod.functions[NameId("f")].local_count = 2

\* C8 (as claimed): Function f() Declare x; x += 2; End parses with
\* local_count = 1 and emits LDLOCAL 0; LII 2; LDLOCAL 0; SWP; ADD; STLOCAL 0.
C8_DeclareAssign_Claimed ==
    Parsed(DeclareAssignProgram) =>
        /\ Emits(<<Instr("LDLOCAL", 0), Instr("LII", uint64_t(2)),
                   Instr("LDLOCAL", 0), Instr0("SWP"), Instr0("ADD"),
                   Instr("STLOCAL", 0)>>)
        /\ result.mod.functions[NameId("f")].local_count = 1

\* C8 (amended): Function f() Declare x; x += 2; End parses with
\* local_count = 1 and emits LII 2; LDLOCAL 0; SWP; ADD; STLOCAL 0: the
\* Declare has no initializer and emits nothing.
C8_DeclareAssign ==
    Parsed(DeclareAssignProgram) =>
        /\ Emits(<<Instr("LII", uint64_t(2)), Instr("LDLOCAL", 0),
                   Instr0("SWP"), Instr0("ADD"), Instr("STLOCAL", 0)>>)
        /\ result.mod.functions[NameId("f")].local_count = 1

C8_Witness ==
    /\ Parsed(DeclareAssignProgram)
    /\ result.kind = "module"
    /\ Len(result.mod.functions[NameId("f")].instructions) > 0

\* C9: of two binary operators of different precedence the higher one binds
\* first, whichever comes first: a op1 b op2 c is emitted as a, b, OP1, c,
\* OP2 when op1 is the higher and as a, b, c, OP2, OP1 when op2 is;
\* 1 + 2 * 3 emits LII 1; LII 2; LII 3; MUL; ADD and 1 * 2 + 3 emits LII 1;
\* LII 2; MUL; LII 3; ADD.
C9_HigherPrecedenceBindsFirst ==
    pc = "returned" =>
        /\ \A op1, op2 \in BinaryOperators :
            (/\ OP_PRECEDENCE_TABLE(op1) # OP_PRECEDENCE_TABLE(op2)
             /\ Parsed(InFunction(<<"a", op1, "b", op2, "c">>)))
            => IF OP_PRECEDENCE_TABLE(op1) > OP_PRECEDENCE_TABLE(op2)
               THEN Emits(<<Load("a"), Load("b"), Instr0(OP_TO_INSTR_TABLE(op1)),
                            Load("c"), Instr0(OP_TO_INSTR_TABLE(op2)),
                            Instr0("RET")>>)
               ELSE Emits(<<Load("a"), Load("b"), Load("c"),
                            Instr0(OP_TO_INSTR_TABLE(op2)),
                            Instr0(OP_TO_INSTR_TABLE(op1)), Instr0("RET")>>)
        /\ Parsed(ReturnProgram(<<"1", "+", "2", "*", "3">>)) =>
               Emits(<<Load("1"), Load("2"), Load("3"), Instr0("MUL"),
                       Instr0("ADD"), Instr0("RET")>>)
        /\ Parsed(ReturnProgram(<<"1", "*", "2", "+", "3">>)) =>
               Emits(<<Load("1"), Load("2"), Instr0("MUL"), Load("3"),
                       Instr0("ADD"), Instr0("RET")>>)

C9_Witness ==
    /\ Parsed(InFunction(<<"a", "+", "b", "*", "c">>))
    /\ Emits(<<Load("a"), Load("b"), Load("c"), Instr0("MUL"), Instr0("ADD"),
               Instr0("RET")>>)

\* The first error the parser held: the one tk_res carried, else the first
\* one a routine recorded.
FirstError == IF tk_res.error.has_value THEN tk_res.error ELSE parser.emplaced[1]

\* C10: error latching: once the parser holds a SyntaxError no step replaces
\* or clears it, no routine records a second one, parsing goes no further
\* than returning failure, and the error parse returns is the first one.
C10_ErrorLatches ==
    /\ [](pc # "start" =>
            /\ has_error(parser) =>
                   /\ Len(parser.emplaced) = (IF tk_res.error.has_value THEN 0 ELSE 1)
                   /\ parser.error = FirstError
                   /\ pc \in {"parse", "nullopt", "returned"}
            /\ (pc = "returned" /\ has_error(parser)) =>
                   result = [kind |-> "error", error |-> FirstError]
            /\ (pc = "returned" /\ result.kind = "error") => has_error(parser))
    /\ [][(pc # "start" /\ has_error(parser)) =>
              /\ parser'.error = parser.error
              /\ pc' \in {"nullopt", "returned"}]_vars

C10_Witness ==
    /\ pc = "returned"
    /\ result.kind = "error"
    /\ ~tk_res.error.has_value
    /\ Len(parser.emplaced) = 1
    /\ result.error = parser.emplaced[1]
    /\ DOMAIN mod.functions # {}

\* The jump opcodes.
JumpTypes == {"JMP", "JZ", "JNZ"}

\* The indices (0-based) of the jumps of an instruction vector.
Jumps(is) == {i \in 0..(Len(is) - 1) : is[i + 1].type \in JumpTypes}

\* C11: after a successful parse every JMP, JZ and JNZ of every function has
\* been patched: its operand is not the placeholder 0 it was emitted with,
\* and its target t satisfies 0 <= t <= instructions.size().
C11_JumpsPatched ==
    (pc = "returned" /\ result.kind = "module") =>
        \A n \in DOMAIN result.mod.functions :
            \A i \in Jumps(result.mod.functions[n].instructions) :
                /\ result.mod.functions[n].instructions[i + 1].arg # 0
                /\ result.mod.functions[n].instructions[i + 1].arg \in
                       0..Len(result.mod.functions[n].instructions)

C11_Witness ==
    /\ pc = "returned"
    /\ result.kind = "module"
    /\ \E n \in DOMAIN result.mod.functions :
          \A t \in JumpTypes :
              \E i \in Jumps(result.mod.functions[n].instructions) :
                  result.mod.functions[n].instructions[i + 1].type = t

\* The slots held by a scoped table.
Slots(t) ==
    UNION {{t.local_names[n][k] : k \in 1..Len(t.local_names[n])} :
              n \in DOMAIN t.local_names}

\* C12: slot monotonicity.  Between the steps of the parser next_id equals
\* the function's local_count, local_count >= arg_count and every slot held
\* is below next_id; inside a function next_id never decreases (not at the
\* end of a block either) and no binding changes its slot; a name declared
\* by a step gets the slot local_count - 1, above every slot allocated
\* before; the parameters get the slots 0..arg_count-1.
C12_SlotMonotonicity ==
    /\ [](pc # "start" =>
            /\ parser.local_names.next_id = parser.func.local_count
            /\ parser.func.local_count >= parser.func.arg_count
            /\ \A s \in Slots(parser.local_names) : s < parser.local_names.next_id)
    /\ [][/\ pc = "function" =>
               /\ parser'.local_names.next_id >= parser.local_names.next_id
               /\ parser'.func.arg_count = parser.func.arg_count
               /\ \A s \in Slots(parser'.local_names) \ Slots(parser.local_names) :
                      s >= parser.local_names.next_id
               /\ (/\ top(parser).k = "declare"
                    /\ parser'.func.local_count # parser.func.local_count) =>
                       /\ parser'.func.local_count = parser.func.local_count + 1
                       /\ SLT_get(parser'.local_names, peek(parser).val) =
                              parser'.func.local_count - 1
                       /\ \A s \in Slots(parser.local_names) :
                              s < parser'.func.local_count - 1
          /\ (pc = "module" /\ pc' = "function") =>
               /\ parser'.func.local_count = parser'.func.arg_count
               /\ Slots(parser'.local_names) = 0..(parser'.func.arg_count - 1)]_vars

C12_Witness ==
    /\ Parsed(DeclareAfterBlockProgram)
    /\ Emits(<<Instr("LDLOCAL", 0), Instr("JZ", 2), Instr("LDLOCAL", 2),
               Instr0("RET")>>)
    /\ result.mod.functions[NameId("f")].local_count = 3
    /\ result.mod.functions[NameId("f")].arg_count = 1

\* C13: name-table idempotence and round trip: in every state of the table
\* and for every string s, two successive calls get_id_or_insert(s) return
\* the same id, the second leaves size() unchanged, and
\* get_name(get_id_or_insert(s)) = s.
C13_NameTableIdempotent ==
    pc = "names" =>
        \A s \in NameStrings :
            /\ get_id_or_insert(insert_name(names, s), s) = get_id_or_insert(names, s)
            /\ NameTable_size(insert_name(insert_name(names, s), s)) =
                   NameTable_size(insert_name(names, s))
            /\ NameTable_get_name(insert_name(names, s), get_id_or_insert(names, s)) = s

\* The last call was get_id_or_insert of a string inserted before others.
C13_Witness ==
    /\ pc = "names"
    /\ result.kind = "get_id_or_insert"
    /\ NameTable_size(names) >= 2
    /\ result.id < NameTable_size(names) - 1
    /\ NameTable_get_name(names, result.id) = result.name

\* The ids a table has given out.
Ids(nt) == {nt.name_to_id[n] : n \in DOMAIN nt.name_to_id}

\* C14: after any sequence of calls the ids in use are exactly 0..size()-1,
\* id i names the i-th string of names, distinct strings have distinct ids
\* and INVALID_ID is none of them; a call never removes a name nor changes
\* its id or its place; get_id_or_insert of a new string returns the
\* previous size(); get_id of a string never inserted returns INVALID_ID and
\* changes nothing.
C14_NameTableIds ==
    /\ [](pc = "names" =>
            /\ Ids(names) = 0..(NameTable_size(names) - 1)
            /\ NameTable_INVALID_ID \notin Ids(names)
            /\ \A i \in 0..(NameTable_size(names) - 1) :
                   get_id(names, NameTable_get_name(names, i)) = i
            /\ \A m, n \in DOMAIN names.name_to_id :
                   m # n => names.name_to_id[m] # names.name_to_id[n]
            /\ Cardinality(DOMAIN names.name_to_id) = NameTable_size(names))
    /\ [][pc = "names" =>
              /\ SubSeq(names'.names, 1, NameTable_size(names)) = names.names
              /\ \A n \in DOMAIN names.name_to_id :
                     get_id(names', n) = get_id(names, n)
              /\ (/\ result'.kind = "get_id_or_insert"
                   /\ get_id(names, result'.name) = NameTable_INVALID_ID) =>
                      /\ result'.id = NameTable_size(names)
                      /\ NameTable_size(names') = NameTable_size(names) + 1
                      /\ NameTable_get_name(names', result'.id) = result'.name
              /\ (/\ result'.kind = "get_id"
                   /\ result'.name \notin DOMAIN names.name_to_id) =>
                      /\ result'.id = NameTable_INVALID_ID
                      /\ names' = names
              /\ (/\ result'.kind \in {"get_id", "get_id_or_insert"}
                   /\ result'.name \in DOMAIN names.name_to_id) =>
                      /\ result'.id = names.name_to_id[result'.name]
                      /\ names' = names]_vars

\* get_id of a string never inserted, on a table that holds others.
C14_Witness ==
    /\ pc = "names"
    /\ result.kind = "get_id"
    /\ result.id = NameTable_INVALID_ID
    /\ result.name \notin DOMAIN names.name_to_id
    /\ NameTable_size(names) >= 2

\* C15: every TokenizeResult returned without an error ends with exactly
\* one (eof) token and has no (eof) at an earlier position; the empty and
\* the whitespace-only source yield the single token (eof).
C15_EofTerminated ==
    (lexer.pc = "returned" /\ ~tk_res.error.has_value) =>
        /\ Len(tk_res.tokens) >= 1
        /\ tk_res.tokens[Len(tk_res.tokens)].type = "(eof)"
        /\ \A i \in 1..(Len(tk_res.tokens) - 1) : tk_res.tokens[i].type # "(eof)"
        /\ lexer.stream.source \in BlankSources => Len(tk_res.tokens) = 1

C15_Witness ==
    /\ lexer.pc = "returned"
    /\ ~tk_res.error.has_value
    /\ Len(tk_res.tokens) >= 3
    /\ tk_res.tokens[Len(tk_res.tokens)].type = "(eof)"

\* The code of an argument expression of ArgExprs.
ArgCode(e) ==
    CASE Len(e) = 1 -> <<Load(e[1])>>
      [] e = <<"b", "+", "1">> -> <<Load("b"), Load("1"), Instr0("ADD")>>
      [] e = <<"g", "(", "x", ")">> -> <<Load("x"), Load("g"), Instr("CALL", 1)>>

RECURSIVE ArgsCode(_)
ArgsCode(args) ==
    IF args = <<>> THEN <<>> ELSE ArgCode(Head(args)) \o ArgsCode(Tail(args))

\* C16: a call callee(a1, ..., an), with or without a trailing comma after
\* an, emits the code of a1, ..., an in source order, then the code of the
\* callee, then one CALL n; f(a, b, c) is load a, load b, load c, load f,
\* CALL 3.
C16_CallLowering ==
    pc = "returned" =>
        \A callee \in Callees, args \in ArgLists, trailing \in BOOLEAN :
            (Parsed(CallProgram(callee, args, trailing))
                /\ ~(args = <<>> /\ trailing))
            => Emits(ArgsCode(args)
                     \o <<Load(callee), Instr("CALL", Len(args)), Instr0("RET")>>)

C16_Witness ==
    /\ Parsed(CallProgram("f", <<<<"a">>, <<"b", "+", "1">>, <<"g", "(", "x", ")">>>>, TRUE))
    /\ Emits(<<Load("a"), Load("b"), Load("1"), Instr0("ADD"),
               Load("x"), Load("g"), Instr("CALL", 1),
               Load("f"), Instr("CALL", 3), Instr0("RET")>>)

\* C17: when the TokenizeResult handed to parse carries an error, parse
\* returns exactly that error and does nothing else: the cursor stays at 0,
\* no routine runs, no instruction is emitted, no error is recorded and no
\* module is built, whatever the token vector holds.
C17_CarriedErrorReturned ==
    tk_res.error.has_value =>
        /\ pc \in {"start", "parse", "nullopt", "returned"}
        /\ mod = BytecodeModule
        /\ pc # "start" =>
               /\ parser.pos = 0
               /\ parser.stack = <<>>
               /\ parser.emplaced = <<>>
               /\ parser.func = BytecodeFunction
               /\ parser.error = tk_res.error
        /\ pc = "returned" => result = [kind |-> "error", error |-> tk_res.error]

C17_Witness ==
    /\ pc = "returned"
    /\ tk_res.error.has_value
    /\ Len(tk_res.tokens) > 1
    /\ result = [kind |-> "error", error |-> tk_res.error]

\* parse() returned a module in which function n has these instructions,
\* arg_count and local_count.
Function(n, is, arg_count, local_count) ==
    /\ result.kind = "module"
    /\ NameId(n) \in DOMAIN result.mod.functions
    /\ result.mod.functions[NameId(n)] =
           [name |-> NameId(n), local_count |-> local_count,
            arg_count |-> arg_count, instructions |-> is]

\* C18: the scoped local table is reset at every Function: in a module of
\* two functions the second one's parameters and locals are numbered from
\* slot 0 again, and a parameter or local v of the first function is a
\* global in the second when that does not bind it (LDGLOBAL v) and can be
\* declared there, or be its parameter, without an error.
C18_LocalsResetPerFunction ==
    pc = "returned" =>
        \A v \in BoundInF :
            /\ Parsed(UsesProgram(v)) =>
                   Function("g", <<Instr("LDGLOBAL", NameId(v)), Instr0("RET")>>, 0, 0)
            /\ Parsed(DeclaresProgram(v)) =>
                   Function("g", <<Instr("LDLOCAL", 0), Instr("LDLOCAL", 1),
                                   Instr("LDLOCAL", 1), Instr0("RET")>>, 1, 2)
            /\ Parsed(ParameterProgram(v)) =>
                   Function("g", <<Instr("LDLOCAL", 0), Instr("LDGLOBAL", NameId("c")),
                                   Instr0("ADD"), Instr0("RET")>>, 1, 1)
            /\ (\E ws \in TwoFunctionPrograms : Parsed(ws)) =>
                   Function("f", <<Instr("LII", uint64_t(1)), Instr("LDLOCAL", 2),
                                   Instr("LDLOCAL", 2), Instr0("RET")>>, 2, 3)

C18_Witness ==
    /\ Parsed(DeclaresProgram("a"))
    /\ Function("g", <<Instr("LDLOCAL", 0), Instr("LDLOCAL", 1),
                       Instr("LDLOCAL", 1), Instr0("RET")>>, 1, 2)
    /\ Function("f", <<Instr("LII", uint64_t(1)), Instr("LDLOCAL", 2),
                       Instr("LDLOCAL", 2), Instr0("RET")>>, 2, 3)

\* The code of a condition chain whose then-jumps go to then_t and whose
\* else-jumps go to else_t.
RECURSIVE CondCode(_, _, _, _)
CondCode(es, js, then_t, else_t) ==
    IF Len(es) = 1
    THEN ArgCode(Head(es)) \o <<Instr("JZ", else_t)>>
    ELSE ArgCode(Head(es))
         \o <<IF Head(js) = "||" THEN Instr("JNZ", then_t) ELSE Instr("JZ", else_t)>>
         \o CondCode(Tail(es), Tail(js), then_t, else_t)

\* The length of the code of a chain.
CondLen(c) == Len(CondCode(c.es, c.js, 0, 0))

\* The code of CondProgram(c, tail): the chain, the Then block, the JMP and
\* the other branch when there is one.
CondProgramCode(c, tail, n) ==
    IF tail = <<"End">>
    THEN CondCode(c.es, c.js, n, n + 2) \o <<Load("1"), Instr0("RET")>>
    ELSE IF Head(tail) = "Else"
    THEN CondCode(c.es, c.js, n, n + 3)
         \o <<Load("1"), Instr0("RET"), Instr("JMP", n + 5),
              Load("2"), Instr0("RET")>>
    ELSE CondCode(c.es, c.js, n, n + 3)
         \o <<Load("1"), Instr0("RET"), Instr("JMP", n + 7),
              Load("x"), Instr("JZ", n + 7), Load("3"), Instr0("RET")>>

\* C19: condition-chain lowering: in If e1 j1 e2 ... en Then each ei is
\* emitted in order, followed by a JNZ to the first instruction of the Then
\* block when || follows it, by a JZ to the index just after the branch's
\* block (after its JMP when another branch follows) when && follows it,
\* and by such a JZ after en.  If a && b || c Then Return 1; End gives
\* a; JZ 8; b; JNZ 6; c; JZ 8; LII 1; RET.
C19_ConditionChainLowering ==
    pc = "returned" =>
        /\ \A c \in CondChains, tail \in CondTails :
               Parsed(CondProgram(c, tail)) =>
                   Emits(CondProgramCode(c, tail, CondLen(c)))
        /\ Parsed(<<"Function", "f", "(", "a", ")", "If", "a", "&&", "b", "||", "c",
                    "Then", "Return", "1", ";", "End", "End">>) =>
               Emits(<<Load("a"), Instr("JZ", 8), Load("b"), Instr("JNZ", 6),
                       Load("c"), Instr("JZ", 8), Load("1"), Instr0("RET")>>)

C19_Witness ==
    /\ Parsed(CondProgram([es |-> <<<<"a">>, <<"b", "+", "1">>, <<"a">>>>,
                           js |-> <<"&&", "||">>],
                          <<"Else", "Return", "2", ";", "End">>))
    /\ Emits(<<Load("a"), Instr("JZ", 11), Load("b"), Load("1"), Instr0("ADD"),
               Instr("JNZ", 8), Load("a"), Instr("JZ", 11),
               Load("1"), Instr0("RET"), Instr("JMP", 13),
               Load("2"), Instr0("RET")>>)

\* The code of a block of BlockKinds that starts at index base.
BlockCode(kind, base) ==
    CASE kind = "ret" -> <<Load("1"), Instr0("RET")>>
      [] kind = "if" -> <<Load("b"), Instr("JZ", base + 4), Load("1"), Instr0("RET")>>
      [] kind = "ifelse" -> <<Load("b"), Instr("JZ", base + 5), Load("1"),
                              Instr0("RET"), Instr("JMP", base + 7),
                              Load("2"), Instr0("RET")>>

\* The number of instructions of a chain.
RECURSIVE IfChainLen(_, _)
IfChainLen(bs, els) ==
    IF bs = <<>>
    THEN (IF els = "none" THEN 0 ELSE Len(BlockCode(els, 0)))
    ELSE 2 + Len(BlockCode(Head(bs), 0))
         + (IF Len(bs) > 1 \/ els # "none" THEN 1 ELSE 0)
         + IfChainLen(Tail(bs), els)

\* The code of a chain that starts at index base and ends just before index
\* end: per branch the condition a with its JZ to the next branch, the
\* block, and JMP end exactly when another branch follows.
RECURSIVE IfChainCode(_, _, _, _)
IfChainCode(bs, els, base, end) ==
    IF bs = <<>>
    THEN (IF els = "none" THEN <<>> ELSE BlockCode(els, base))
    ELSE IF Len(bs) > 1 \/ els # "none"
    THEN <<Load("a"), Instr("JZ", base + 3 + Len(BlockCode(Head(bs), 0)))>>
         \o BlockCode(Head(bs), base + 2) \o <<Instr("JMP", end)>>
         \o IfChainCode(Tail(bs), els, base + 3 + Len(BlockCode(Head(bs), 0)), end)
    ELSE <<Load("a"), Instr("JZ", base + 2 + Len(BlockCode(Head(bs), 0)))>>
         \o BlockCode(Head(bs), base + 2)

\* C20: If-chain layout: after the block of an If or ElseIf a JMP is
\* emitted exactly when an ElseIf or Else follows, and every such JMP targets
\* the index just past the whole If statement; exactly one End closes each
\* If, nested ones included (the statement after the chain is parsed into
\* the same function, a chain without its End or with a second End is an
\* error).
C20_IfChainLayout ==
    pc = "returned" =>
        /\ \A c \in IfChains :
               Parsed(IfChainProgram(c)) =>
                   /\ Emits(IfChainCode(c.bs, c.els, 0, IfChainLen(c.bs, c.els))
                            \o <<Load("c"), Instr0("RET")>>)
                   /\ DOMAIN result.mod.functions = {NameId("f")}
        /\ \A c \in SmallIfChains :
               /\ Parsed(IfChainMissingEnd(c)) => result.kind = "error"
               /\ Parsed(IfChainExtraEnd(c)) => result.kind = "error"

C20_Witness ==
    /\ Parsed(IfChainProgram([bs |-> <<"ifelse", "if">>, els |-> "ret"]))
    /\ Emits(<<Load("a"), Instr("JZ", 10),
               Load("b"), Instr("JZ", 7), Load("1"), Instr0("RET"),
               Instr("JMP", 9), Load("2"), Instr0("RET"),
               Instr("JMP", 19),
               Load("a"), Instr("JZ", 17),
               Load("b"), Instr("JZ", 16), Load("1"), Instr0("RET"),
               Instr("JMP", 19),
               Load("1"), Instr0("RET"),
               Load("c"), Instr0("RET")>>)

\* The code of a Declare item whose name got this slot.
ItemCode(init, slot) ==
    CASE init = "none" -> <<>>
      [] init = "10"   -> <<Load("10"), Instr("LDLOCAL", slot)>>
      [] init = "a"    -> <<Load("a"), Instr("LDLOCAL", slot)>>
      [] init = "self" -> <<Instr("LDLOCAL", slot), Instr("LDLOCAL", slot)>>
      [] init = "g+1"  -> <<Load("g"), Load("1"), Instr0("ADD"),
                            Instr("LDLOCAL", slot)>>

\* C21: for every item Declare id = expr the slot is allocated first (the
\* initializer sees id as that local), then the code of expr is emitted,
\* then LDLOCAL of the new slot, and no STLOCAL; an item without initializer
\* emits nothing.  Function f() Declare x = 10; Return x; End yields
\* LII 10; LDLOCAL 0; LDLOCAL 0; RET.
C21_DeclareLowering ==
    pc = "returned" =>
        /\ \A inits \in InitializerLists :
               Parsed(DeclareProgram(inits)) =>
                   Function("f",
                       ItemCode(inits[1], 1)
                       \o (IF Len(inits) = 2 THEN ItemCode(inits[2], 2) ELSE <<>>)
                       \o <<Load("c"), Instr0("RET")>>,
                       1, 1 + Len(inits))
        /\ Parsed(<<"Function", "f", "(", ")", "Declare", "x", "=", "10", ";",
                    "Return", "x", ";", "End">>) =>
               Function("f", <<Load("10"), Instr("LDLOCAL", 0),
                               Instr("LDLOCAL", 0), Instr0("RET")>>, 0, 1)

C21_Witness ==
    /\ Parsed(DeclareProgram(<<"self", "g+1">>))
    /\ Function("f", <<Instr("LDLOCAL", 1), Instr("LDLOCAL", 1),
                       Load("g"), Load("1"), Instr0("ADD"), Instr("LDLOCAL", 2),
                       Load("c"), Instr0("RET")>>, 1, 3)

\* C22: a name is bound as a local at most once per function.  A repeated
\* parameter is rejected with "duplicate local name <name>" at the repeated
\* token; a Declare of a name that is a parameter or was declared earlier in
\* the function (same block, enclosing block, already closed block) is
\* rejected with "variable <name> already declared" at that token; no slot
\* is allocated for the rejected name.
C22_BoundAtMostOnce ==
    pc # "start" =>
        /\ \A n \in DOMAIN parser.local_names.local_names :
               Len(parser.local_names.local_names[n]) <= 1
        /\ \A r \in Rebinds :
               Parsed(r.tokens) =>
                   /\ result = [kind |-> "error",
                                error |-> SyntaxError(r.message,
                                              SourceLocation(1, r.at))]
                   /\ SLT_size(parser.local_names) = r.slots
                   /\ parser.func.local_count = r.slots

C22_Witness ==
    /\ Parsed(<<"Function", "f", "(", "a", ")",
                "If", "a", "Then", "Declare", "x", ";", "End",
                "Declare", "x", ";", "End">>)
    /\ result.kind = "error"
    /\ result.error.message = "variable x already declared"
    /\ result.error.location = SourceLocation(1, 14)
    /\ NameId("x") \in DOMAIN parser.local_names.local_names
    /\ SLT_size(parser.local_names) = 2

\* The code of the expressions of AssignValues and AssignTargets inside
\* StatementProgram, and the store to a target.
ExprCode(e) ==
    CASE e = <<"a", "+", "b">>      -> <<Load("a"), Load("b"), Instr0("ADD")>>
      [] e = <<"g", "(", "x", ")">> -> <<Load("x"), Load("g"), Instr("CALL", 1)>>
      [] OTHER                      -> <<Load(e[1])>>

StoreCode(e) ==
    CASE e = <<"a">> -> <<Instr("STLOCAL", 0)>>
      [] e = <<"x">> -> <<Instr("STLOCAL", 1)>>
      [] OTHER       -> <<Instr("STGLOBAL", NameId(e[1]))>>

\* The code of the statement  a;  that precedes the statement under test.
Preceding == <<Load("a"), Instr("POPN", 1)>>

\* The lowering of assignments, with these left sides as the non-lvalues.
AssignmentLowering(rvalues) ==
    pc = "returned" =>
        /\ \A lhs \in AssignTargets, rhs \in AssignValues :
               /\ Parsed(AssignProgram(lhs, "=", rhs)) =>
                      Emits(Preceding \o ExprCode(rhs) \o StoreCode(lhs))
               /\ \A op \in AssignOperators \ {"="} :
                      Parsed(AssignProgram(lhs, op, rhs)) =>
                          Emits(Preceding \o ExprCode(rhs) \o ExprCode(lhs)
                                \o <<Instr0("SWP"), Instr0(OP_TO_INSTR_TABLE(op))>>
                                \o StoreCode(lhs))
        /\ \A e \in AssignValues \cup AssignTargets :
               Parsed(ExprStatementProgram(e)) =>
                   Emits(Preceding \o ExprCode(e) \o <<Instr("POPN", 1)>>)
        /\ \A lhs \in rvalues, op \in {"=", "+=", "**="} :
               Parsed(AssignProgram(lhs, op, <<"1">>)) =>
                   /\ result = [kind |-> "error",
                                error |-> SyntaxError("cannot assign to rvalue",
                                              SourceLocation(1, 11 + Len(lhs)))]
                   /\ parser.func.instructions = Preceding

\* The opcodes of the compound assignment operators.
CompoundOpcodes ==
    /\ OP_TO_INSTR_TABLE("+=") = "ADD"   /\ OP_TO_INSTR_TABLE("-=") = "SUB"
    /\ OP_TO_INSTR_TABLE("*=") = "MUL"   /\ OP_TO_INSTR_TABLE("/=") = "DIV"
    /\ OP_TO_INSTR_TABLE("//=") = "IDIV" /\ OP_TO_INSTR_TABLE("%=") = "MOD"
    /\ OP_TO_INSTR_TABLE("**=") = "POW"  /\ OP_TO_INSTR_TABLE("<<=") = "SHL"
    /\ OP_TO_INSTR_TABLE(">>=") = "SHR"  /\ OP_TO_INSTR_TABLE("&=") = "BAND"
    /\ OP_TO_INSTR_TABLE("|=") = "BOR"   /\ OP_TO_INSTR_TABLE("^=") = "BXOR"

\* C23: x = e; emits code(e) and the store to x; x op= e; emits code(e),
\* the load of x, SWP, the operator's opcode and the store, for each
\* compound operator; an expression followed by ';' emits its code and
\* POPN 1; a left side that is no lvalue (a literal, a call, a unary or a
\* binary expression) fails with "cannot assign to rvalue" at the operator
\* before any instruction of the statement is emitted.
C23_AssignmentLowering == CompoundOpcodes /\ AssignmentLowering(Rvalues)

\* The same with the unary left side left out.
C23_AssignmentLowering_NoUnary ==
    CompoundOpcodes /\ AssignmentLowering(Rvalues \ {<<"-", "a">>})

\* The tokens of <pre><operator><post> under maximal munch.
MunchTokens(pre, o, post) ==
    (IF pre = <<"a">>
     THEN <<Token_from_identifier(SourceLocation(1, 1), 0)>> ELSE <<>>)
    \o <<Token(o.type, SourceLocation(1, Len(pre) + 1))>>
    \o (IF post = <<"b">>
        THEN <<Token_from_identifier(
                   SourceLocation(1, Len(pre) + Len(o.chars) + 1), Len(pre))>>
        ELSE <<>>)
    \o <<Token("(eof)", IF post = <<"\n">>
                        THEN SourceLocation(2, 1)
                        ELSE SourceLocation(1, Len(pre) + Len(o.chars) + Len(post) + 1))>>

\* Maximal munch on the sources whose operator is followed by one of these.
MaximalMunch(after) ==
    lexer.pc = "returned" =>
        \A pre \in MunchBefore, o \in MunchOperators, post \in after :
            lexer.stream.source = pre \o o.chars \o post =>
                /\ ~tk_res.error.has_value
                /\ tk_res.tokens = MunchTokens(pre, o, post)

\* C24: operators are matched by maximal munch: each of += ** **= // //=
\* << <<= >> >>= <= >= == != && || :: becomes one token of its kind located
\* at its first byte (a**=b yields (identifier), **=, (identifier), (eof)).
C24_MaximalMunch == MaximalMunch(MunchAfter)

\* The same for the operators that are followed by a byte of the source.
C24_MaximalMunch_Followed == MaximalMunch(MunchAfter \ {<<>>})

\* The names of the runs of rs that are no keyword, each once, in the order
\* of first occurrence.
RECURSIVE FirstOccurrences(_, _)
FirstOccurrences(rs, seen) ==
    IF rs = <<>> THEN seen
    ELSE FirstOccurrences(Tail(rs),
             IF \/ Head(rs) \in KeywordRuns
                \/ \E i \in 1..Len(seen) : seen[i] = Head(rs).name
             THEN seen ELSE Append(seen, Head(rs).name))

\* The column of the i-th run of RunSource(rs).
RECURSIVE RunColumn(_, _)
RunColumn(rs, i) ==
    IF i = 1 THEN 1 ELSE RunColumn(rs, i - 1) + Len(rs[i - 1].chars) + 1

\* The token of the i-th run of rs.
RunToken(rs, i) ==
    IF rs[i] \in KeywordRuns
    THEN Token(rs[i].name, SourceLocation(1, RunColumn(rs, i)))
    ELSE Token_from_identifier(SourceLocation(1, RunColumn(rs, i)),
             (CHOOSE k \in 1..Len(FirstOccurrences(rs, <<>>)) :
                  FirstOccurrences(rs, <<>>)[k] = rs[i].name) - 1)

\* tokenize returned these runs' tokens and this name table.
Tokenized(rs) ==
    /\ ~tk_res.error.has_value
    /\ Len(tk_res.tokens) = Len(rs) + 1
    /\ \A i \in 1..Len(rs) : tk_res.tokens[i] = RunToken(rs, i)
    /\ tk_res.tokens[Len(rs) + 1].type = "(eof)"
    /\ names.names = FirstOccurrences(rs, <<>>)
    /\ DOMAIN names.name_to_id = {names.names[k] : k \in 1..Len(names.names)}
    /\ \A k \in 1..Len(names.names) : names.name_to_id[names.names[k]] = k - 1

C26_TokenNamesResolve ==
    (pc = "TK" /\ result.kind = "TK") =>
        /\ result.type \in 0..(TOKEN_COUNT - 1)
        /\ TOKEN_TYPE_NAMES[result.type + 1] = result.name
        /\ \A i \in 1..Len(tokens) :
               tokens[i].name # result.name => tokens[i].type # result.type

\* C27: the cursor of the parser never leaves the token vector: for every
\* token sequence ending in (eof), pos is at most the index of the (eof) in
\* every reachable state (consume does not advance past it), so every peek
\* and expect reads an existing token; and whenever Parser::parse returns
\* std::nullopt an error has been recorded.
C27_CursorInsideTokens ==
    pc # "start" =>
        /\ (tokens # <<>> /\ tokens[Len(tokens)].type = "(eof)") =>
               /\ parser.pos \in 0..(Len(tokens) - 1)
               /\ \A i \in 1..parser.pos : tokens[i].type # "(eof)"
        /\ pc = "nullopt" => has_error(parser)
        /\ (pc = "returned" /\ result.kind = "error") => result.error.has_value

C27_Witness ==
    /\ pc = "returned"
    /\ result.kind = "error"
    /\ ~tk_res.error.has_value
    /\ parser.pos = Len(tokens) - 1
    /\ peek(parser).type = "(eof)"
    /\ result.error.message = "expected (identifier), got (eof)"
    /\ result.error.location = peek(parser).loc

\* C28: tokenize never reads a byte at an index >= source.size(): every
\* SourceStream::peek, consume and match executes with pos < size, for
\* every source, including those that end (without trailing whitespace) in
\* + * < : a digit or an identifier character.
C28_NoReadPastEnd == ~lexer.stream.past_end

\* C29: a condition chain is accepted only as e1 (|| or &&) e2 ... en Then:
\* a condition with two sub-expressions and no joiner between them (If a b
\* Then) or with a joiner and no sub-expression after it (If a || Then)
\* makes parse return a SyntaxError and no module.
C29_MalformedConditionRejected ==
    \A cond \in MalformedConds :
        (Parsed(MalformedCondProgram(cond)) \/ Parsed(MalformedElseIfProgram(cond)))
            => result.kind = "error"

\* C30: no function of a successfully parsed module contains an INVALID
\* opcode: every token the Pratt loop consumes as a binary operator (one of
\* precedence >= 0 other than the call parenthesis, so also [ and .) maps to
\* a real opcode, or the parse fails.
C30_NoInvalidOpcode ==
    (pc = "returned" /\ result.kind = "module") =>
        \A f \in DOMAIN result.mod.functions :
            \A i \in 1..Len(result.mod.functions[f].instructions) :
                result.mod.functions[f].instructions[i].type # "INVALID"

====
